---- MODULE Spec2Model ----
(***************************************************************************)
(* Accudent invoice importer: the invoice text parser (parser.py), the     *)
(* monthly ledger merge (writer.py), the report (report_generator.py) and  *)
(* the batch worker of the desktop application (accudent_app.py).          *)
(*                                                                         *)
(* Text is a sequence of one-character strings.  A Decimal with at most    *)
(* two fraction digits is the integer number of cents.                     *)
(***************************************************************************)
EXTENDS Integers, Sequences, FiniteSets, TLC

(***************************************************************************)
(* Characters and the character classes of Python's re module.             *)
(***************************************************************************)
Digits == <<"0", "1", "2", "3", "4", "5", "6", "7", "8", "9">>

LowerChars == <<"a", "b", "c", "d", "e", "f", "g", "h", "i", "j", "k", "l", "m",
                "n", "o", "p", "q", "r", "s", "t", "u", "v", "w", "x", "y", "z">>

UpperChars == <<"A", "B", "C", "D", "E", "F", "G", "H", "I", "J", "K", "L", "M",
                "N", "O", "P", "Q", "R", "S", "T", "U", "V", "W", "X", "Y", "Z">>

DigitSet == {Digits[i] : i \in 1..Len(Digits)}

LowerSet == {LowerChars[i] : i \in 1..Len(LowerChars)}

UpperSet == {UpperChars[i] : i \in 1..Len(UpperChars)}

\* \d
IsDigit(c) == c \in DigitSet

\* \s
IsSpace(c) == c \in {" ", "\t", "\n", "\r", "\f"}

\* \w
IsWordChar(c) == c \in DigitSet \cup LowerSet \cup UpperSet \cup {"_"}

DigitVal(c) == (CHOOSE i \in 1..Len(Digits) : Digits[i] = c) - 1

\* str.upper() on one character
Upper(c) ==
  IF c \in LowerSet
    THEN UpperChars[CHOOSE i \in 1..Len(LowerChars) : LowerChars[i] = c]
    ELSE c

UpperStr(s) == [i \in 1..Len(s) |-> Upper(s[i])]

\* s[p..] starts with w (positions are 1-based)
StartsAt(s, p, w) ==
  /\ p >= 1
  /\ p + Len(w) - 1 <= Len(s)
  /\ \A k \in 1..Len(w) : s[p + k - 1] = w[k]

\* w in s
Contains(s, w) == \E p \in 1..(Len(s) - Len(w) + 1) : StartsAt(s, p, w)

\* str.find: the first position of w in s, 0 when absent
Find(s, w) ==
  LET hits == {p \in 1..(Len(s) - Len(w) + 1) : StartsAt(s, p, w)}
  IN  IF hits = {} THEN 0 ELSE CHOOSE p \in hits : \A q \in hits : p <= q

\* re.sub(r'\s+', '', s)
RECURSIVE RemoveSpace(_)
RemoveSpace(s) ==
  IF s = <<>> THEN <<>>
  ELSE IF IsSpace(Head(s)) THEN RemoveSpace(Tail(s))
  ELSE <<Head(s)>> \o RemoveSpace(Tail(s))

\* the number of leading characters of s that satisfy the class
RECURSIVE LeadCount(_, _)
LeadCount(s, strip) ==
  IF s # <<>> /\ Head(s) \in strip THEN 1 + LeadCount(Tail(s), strip) ELSE 0

RECURSIVE TrailCount(_, _)
TrailCount(s, strip) ==
  IF s # <<>> /\ s[Len(s)] \in strip
    THEN 1 + TrailCount(SubSeq(s, 1, Len(s) - 1), strip)
    ELSE 0

SpaceSet == {" ", "\t", "\n", "\r", "\f"}

\* str.strip()
Strip(s) ==
  LET a == LeadCount(s, SpaceSet)
  IN  IF a = Len(s) THEN <<>>
      ELSE SubSeq(s, a + 1, Len(s) - TrailCount(s, SpaceSet))

\* the least element of a non-empty set of integers
MinOf(S) == CHOOSE x \in S : \A y \in S : x <= y

\* the least element of a set of positions, 0 if the set is empty
FirstOf(S) == IF S = {} THEN 0 ELSE MinOf(S)

\* the positions of the newlines of the text
Breaks(text) == {p \in 1..Len(text) : text[p] = "\n"}

\* the position of the k-th newline: 0 for k = 0, Len(text) + 1 after the last
BreakAt(text, breaks, k) ==
  IF k = 0 THEN 0
  ELSE IF k > Cardinality(breaks) THEN Len(text) + 1
  ELSE CHOOSE p \in breaks : Cardinality({q \in breaks : q < p}) = k - 1

\* line k lies between the newlines k - 1 and k
LinesBetween(text, breaks) ==
  [k \in 1..(Cardinality(breaks) + 1) |->
     SubSeq(text, BreakAt(text, breaks, k - 1) + 1, BreakAt(text, breaks, k) - 1)]

\* text.split('\n')
SplitLines(text) == LinesBetween(text, Breaks(text))

(***************************************************************************)
(* Decimal values (cents) and Optional values.                             *)
(***************************************************************************)
\* Python's None; an Optional value v that is present is <<v>>
None == <<>>

Some(v) == <<v>>

RECURSIVE IntOfDigits(_)
IntOfDigits(s) ==
  IF s = <<>> THEN 0
  ELSE IntOfDigits(SubSeq(s, 1, Len(s) - 1)) * 10 + DigitVal(s[Len(s)])

\* tok.replace(',', '')
RECURSIVE RemoveCommas(_)
RemoveCommas(s) ==
  IF s = <<>> THEN <<>>
  ELSE IF Head(s) = "," THEN RemoveCommas(Tail(s))
  ELSE <<Head(s)>> \o RemoveCommas(Tail(s))

\* Decimal(str) of a digit string with an optional two-digit fraction, in cents
Decimal(t) ==
  LET dot == Find(t, <<".">>)
  IN  IF dot = 0 THEN IntOfDigits(t) * 100
      ELSE IntOfDigits(SubSeq(t, 1, dot - 1)) * 100
             + IntOfDigits(SubSeq(t, dot + 1, Len(t)))

\* int(float(str)): the integer part
IntOfFloat(t) == Decimal(t) \div 100

(***************************************************************************)
(* parser.py: _parse_table_row                                             *)
(***************************************************************************)
\* the number of digits at s[p..], at most max
RECURSIVE DigitRun(_, _, _)
DigitRun(s, p, max) ==
  IF max > 0 /\ p <= Len(s) /\ IsDigit(s[p])
    THEN 1 + DigitRun(s, p + 1, max - 1)
    ELSE 0

\* (?:,\d{3})* from p: the position after the last group
RECURSIVE GroupsEnd(_, _)
GroupsEnd(s, p) ==
  IF p <= Len(s) /\ s[p] = "," /\ DigitRun(s, p + 1, 3) = 3
    THEN GroupsEnd(s, p + 4)
    ELSE p

\* (?:\.\d{2})? from p
FracEnd(s, p) ==
  IF p <= Len(s) /\ s[p] = "." /\ DigitRun(s, p + 1, 2) = 2 THEN p + 3 ELSE p

\* the position after \d{1,3}(?:,\d{3})*(?:\.\d{2})? matched greedily at the digit s[j]
MoneyEnd(s, j) == FracEnd(s, GroupsEnd(s, j + DigitRun(s, j, 3)))

\* the number of whitespace characters at s[p..]
RECURSIVE SpaceRun(_, _)
SpaceRun(s, p) ==
  IF p <= Len(s) /\ IsSpace(s[p]) THEN 1 + SpaceRun(s, p + 1) ELSE 0

\* money_pattern tried at position i: the start of the captured group, 0 when
\* the pattern does not match at i.  \$? and \s* are greedy; giving characters
\* back leaves a "$" or a whitespace where the digit must be, so the greedy
\* attempt decides.
MoneyGroupStart(s, i) ==
  LET p1 == IF s[i] = "$" THEN i + 1 ELSE i
      p2 == p1 + SpaceRun(s, p1)
  IN  IF p2 <= Len(s) /\ IsDigit(s[p2]) THEN p2 ELSE 0

\* re.findall(money_pattern, line): the captured groups, left to right
RECURSIVE MoneyFindAll(_, _)
MoneyFindAll(s, i) ==
  IF i > Len(s) THEN <<>>
  ELSE LET g == MoneyGroupStart(s, i)
       IN  IF g = 0 THEN MoneyFindAll(s, i + 1)
           ELSE <<SubSeq(s, g, MoneyEnd(s, g) - 1)>> \o MoneyFindAll(s, MoneyEnd(s, g))

\* re.sub(r'^[\|\t\s]+', '', description)
StripLeadingSeparators(s) ==
  SubSeq(s, LeadCount(s, SpaceSet \cup {"|"}) + 1, Len(s))

\* the row read from the first three numeric tokens of the line
FirstThreeTokensRow(line) ==
  LET numbers == MoneyFindAll(line, 1)
  IN  IF Len(numbers) < 3 THEN None
      ELSE Some([description |->
                   StripLeadingSeparators(Strip(SubSeq(line, 1, Find(line, numbers[1]) - 1))),
                 quantity |-> IntOfFloat(RemoveCommas(numbers[1])),
                 unit_price |-> Decimal(RemoveCommas(numbers[2])),
                 cost |-> Decimal(RemoveCommas(numbers[3]))])

\* _parse_table_row(line): None, or Some([description, quantity, unit_price, cost])
_parse_table_row(line) ==
  LET numbers == MoneyFindAll(line, 1)
      n == Len(numbers)
  IN  IF n < 3 THEN None
      ELSE LET quantity_str == RemoveCommas(numbers[n - 2])
               unit_price_str == RemoveCommas(numbers[n - 1])
               cost_str == RemoveCommas(numbers[n])
               first_num_pos == Find(line, numbers[n - 2])
               description == Strip(SubSeq(line, 1, first_num_pos - 1))
           IN  Some([description |-> StripLeadingSeparators(description),
                     quantity |-> IntOfFloat(quantity_str),
                     unit_price |-> Decimal(unit_price_str),
                     cost |-> Decimal(cost_str)])

(***************************************************************************)
(* parser.py: _parse_table                                                 *)
(***************************************************************************)
HeaderKeywords ==
  { <<"D", "E", "S", "C", "R", "I", "P", "T", "I", "O", "N">>,
    <<"Q", "U", "A", "N", "T", "I", "T", "Y">>,
    <<"U", "N", "I", "T", "P", "R", "I", "C", "E">>,
    <<"C", "O", "S", "T">> }

\* the header test on the upper-cased line with its whitespace left in
IsHeaderLineSpaced(line) ==
  \A keyword \in HeaderKeywords : Contains(UpperStr(line), keyword)

\* the header test of _parse_table on one line
IsHeaderLine(line) ==
  LET line_clean == RemoveSpace(UpperStr(line))
  IN  \A keyword \in HeaderKeywords : Contains(line_clean, keyword)

\* the index of the first header line, 0 for header_idx = None
RECURSIVE HeaderIdx(_, _)
HeaderIdx(lines, i) ==
  IF i > Len(lines) THEN 0
  ELSE IF IsHeaderLine(lines[i]) THEN i
  ELSE HeaderIdx(lines, i + 1)

StopWords ==
  { <<"S", "U", "B", "T", "O", "T", "A", "L">>,
    <<"T", "O", "T", "A", "L">>,
    <<"S", "U", "B", "-", "T", "O", "T", "A", "L">> }

\* \b before position p of s
WordBoundary(s, p) ==
  (p - 1 >= 1 /\ IsWordChar(s[p - 1])) # (p <= Len(s) /\ IsWordChar(s[p]))

\* re.search(r'\b(subtotal|total|sub-total)\b', line, re.IGNORECASE)
HasStopWord(line) ==
  LET U == UpperStr(line)
  IN  \E word \in StopWords : \E p \in 1..Len(U) :
        /\ StartsAt(U, p, word)
        /\ WordBoundary(U, p)
        /\ WordBoundary(U, p + Len(word))

\* the loop, ended by the first line that _parse_table_row returns None for
RECURSIVE TableRowsToFirstNone(_, _)
TableRowsToFirstNone(lines, i) ==
  IF i > Len(lines) THEN <<>>
  ELSE IF Strip(lines[i]) = <<>> \/ HasStopWord(Strip(lines[i])) THEN <<>>
  ELSE IF _parse_table_row(Strip(lines[i])) = None THEN <<>>
  ELSE _parse_table_row(Strip(lines[i])) \o TableRowsToFirstNone(lines, i + 1)

\* the loop of _parse_table over the lines after the header: it ends at a
\* blank line or a stop word; a line that _parse_table_row returns None for
\* adds nothing
RECURSIVE TableRows(_, _)
TableRows(lines, i) ==
  IF i > Len(lines) THEN <<>>
  ELSE IF Strip(lines[i]) = <<>> \/ HasStopWord(Strip(lines[i])) THEN <<>>
  ELSE _parse_table_row(Strip(lines[i])) \o TableRows(lines, i + 1)

\* _parse_table after the search for the header; header_idx = 0 for None
TableFrom(lines, header_idx) ==
  IF header_idx = 0 THEN <<>> ELSE TableRows(lines, header_idx + 1)

\* _parse_table on the lines of the text
TableOf(lines) == TableFrom(lines, HeaderIdx(lines, 1))

\* _parse_table(text): the list of line items
_parse_table(text) == TableOf(SplitLines(text))

(***************************************************************************)
(* parser.py: _parse_patient_and_date                                      *)
(***************************************************************************)
IsLeap(y) == (y % 4 = 0 /\ y % 100 # 0) \/ y % 400 = 0

DaysInMonth(y, m) ==
  IF m = 2 THEN (IF IsLeap(y) THEN 29 ELSE 28)
  ELSE IF m \in {4, 6, 9, 11} THEN 30
  ELSE 31

\* \d{1,2}/ at position q: the position after the slash, 0 if no match (and
\* for q = 0).  The greedy \d{1,2} decides: giving a digit back leaves a digit
\* where the slash must be.
DigitsSlashEnd(s, q) ==
  IF /\ q # 0
     /\ DigitRun(s, q, 2) >= 1
     /\ q + DigitRun(s, q, 2) <= Len(s)
     /\ s[q + DigitRun(s, q, 2)] = "/"
    THEN q + DigitRun(s, q, 2) + 1
    ELSE 0

\* \d{4} at position q: the position after it, 0 if no match (and for q = 0)
YearEnd(s, q) == IF q # 0 /\ DigitRun(s, q, 4) = 4 THEN q + 4 ELSE 0

\* \d{1,2}/\d{1,2}/\d{4} at position q: the position after the match, 0 if none
DateEnd(s, q) == YearEnd(s, DigitsSlashEnd(s, DigitsSlashEnd(s, q)))

\* the date group at position q: q if a date is there, 0 if not
DateAt(s, q) == IF DateEnd(s, q) # 0 THEN q ELSE 0

\* Due\s*<date> at position p (U is the text in upper case): the position of
\* the date, 0 if no match
DueAt(s, U, p) ==
  IF StartsAt(U, p, <<"D", "U", "E">>) THEN DateAt(s, p + 3 + SpaceRun(s, p + 3)) ELSE 0

\* ,\s*Due\s*<date> at position e of the text: the position of the date, 0 if
\* no match
DueDateStart(s, U, e) ==
  IF e <= Len(s) /\ s[e] = "," THEN DueAt(s, U, e + 1 + SpaceRun(s, e + 1)) ELSE 0

\* the position of the first "\n" at or after n0, Len(s) + 1 if there is none
LineEnd(s, n0) ==
  MinOf({p \in n0..Len(s) : s[p] = "\n"} \cup {Len(s) + 1})

\* the lazy name group .+? begun at n0: the least end e > n0 (exclusive) for
\* which the rest of the pattern matches at e, 0 if none ("." stops at "\n")
PatientNameEnd(s, U, n0) ==
  FirstOf({e \in (n0 + 1)..LineEnd(s, n0) : DueDateStart(s, U, e) # 0})

\* the greedy \s* after "Patient:" gives back whitespace until the rest matches:
\* the start of the name group, 0 if the pattern does not match with header end h
RECURSIVE PatientNameStart(_, _, _, _)
PatientNameStart(s, U, h, k) ==
  IF k < 0 THEN 0
  ELSE IF PatientNameEnd(s, U, h + k) # 0 THEN h + k
  ELSE PatientNameStart(s, U, h, k - 1)

\* re.search: the leftmost start of a match of the pattern, 0 if none
PatientSearch(s, U) ==
  FirstOf({i \in 1..Len(s) :
             /\ StartsAt(U, i, <<"P", "A", "T", "I", "E", "N", "T", ":">>)
             /\ PatientNameStart(s, U, i + 8, SpaceRun(s, i + 8)) # 0})

\* strptime with the slip of taking every day up to 31 in every month
StrptimeAnyDay(date_str) ==
  LET a == DigitRun(date_str, 1, 2)
      b == DigitRun(date_str, a + 2, 2)
      m == IntOfDigits(SubSeq(date_str, 1, a))
      d == IntOfDigits(SubSeq(date_str, a + 2, a + 1 + b))
      y == IntOfDigits(SubSeq(date_str, a + b + 3, a + b + 6))
  IN  IF m \in 1..12 /\ d \in 1..31 /\ y >= 1
        THEN Some([year |-> y, month |-> m, day |-> d])
        ELSE None

\* datetime.strptime(date_str, '%m/%d/%Y'): Some([year, month, day]) or None
\* for ValueError
Strptime(date_str) ==
  LET a == DigitRun(date_str, 1, 2)
      b == DigitRun(date_str, a + 2, 2)
      m == IntOfDigits(SubSeq(date_str, 1, a))
      d == IntOfDigits(SubSeq(date_str, a + 2, a + 1 + b))
      y == IntOfDigits(SubSeq(date_str, a + b + 3, a + b + 6))
  IN  IF /\ m \in 1..12
         /\ d \in 1..31
         /\ y >= 1
         /\ d <= DaysInMonth(y, m)
        THEN Some([year |-> y, month |-> m, day |-> d])
        ELSE None

\* the return of _parse_patient_and_date from the groups of the match
PatientAndDate(patient_name, date_due) ==
  IF date_due = None
    THEN [ok |-> FALSE, err |-> "InvalidDate",
          patient_name |-> <<>>, date_due |-> None]
    ELSE [ok |-> TRUE, err |-> "", patient_name |-> patient_name,
          date_due |-> date_due]

\* the date group that starts at position q
DateGroup(s, q) == SubSeq(s, q, DateEnd(s, q) - 1)

\* the match whose name group is s[n0..e-1]
PatientGroups(s, U, n0, e) ==
  PatientAndDate(Strip(SubSeq(s, n0, e - 1)),
                 Strptime(DateGroup(s, DueDateStart(s, U, e))))

\* the match whose name group starts at n0
PatientMatchFrom(s, U, n0) == PatientGroups(s, U, n0, PatientNameEnd(s, U, n0))

\* the match that starts at position i, i = 0 for no match
PatientMatch(s, U, i) ==
  IF i = 0
    THEN [ok |-> FALSE, err |-> "PatientOrDateNotFound",
          patient_name |-> <<>>, date_due |-> None]
    ELSE PatientMatchFrom(s, U, PatientNameStart(s, U, i + 8, SpaceRun(s, i + 8)))

\* the search of _parse_patient_and_date on the text and its upper case
PatientAndDateIn(s, U) == PatientMatch(s, U, PatientSearch(s, U))

\* _parse_patient_and_date(text): [ok, err, patient_name, date_due]
_parse_patient_and_date(text) == PatientAndDateIn(text, UpperStr(text))

(***************************************************************************)
(* parser.py: _parse_dentist_name                                          *)
(***************************************************************************)
\* the letters word[k..] at position p of U, each but the first of the word
\* preceded by \s*: the position after the last letter, 0 if no match
RECURSIVE SpacedEnd(_, _, _, _)
SpacedEnd(U, p, word, k) ==
  IF k > Len(word) THEN p
  ELSE LET q == IF k = 1 THEN p ELSE p + SpaceRun(U, p)
       IN  IF q <= Len(U) /\ U[q] = word[k]
             THEN SpacedEnd(U, q + 1, word, k + 1)
             ELSE 0

\* \s+F\s*O\s*R after I..E that ended at e1: the position after the R, 0 if no
\* match (and for e1 = 0)
ForEnd(U, e1) ==
  IF e1 = 0 \/ SpaceRun(U, e1) < 1 THEN 0
  ELSE SpacedEnd(U, e1 + SpaceRun(U, e1), <<"F", "O", "R">>, 1)

\* \s*: after F..R that ended at e2: the position after the colon, 0 if no
\* match (and for e2 = 0)
ColonEnd(U, e2) ==
  IF e2 # 0 /\ e2 + SpaceRun(U, e2) <= Len(U) /\ U[e2 + SpaceRun(U, e2)] = ":"
    THEN e2 + SpaceRun(U, e2) + 1
    ELSE 0

\* I\s*N\s*V\s*O\s*I\s*C\s*E\s+F\s*O\s*R\s*: at position i: the position after
\* the colon, 0 if no match
InvoiceForEnd(U, i) ==
  ColonEnd(U, ForEnd(U, SpacedEnd(U, i, <<"I", "N", "V", "O", "I", "C", "E">>, 1)))

\* the lookahead (?=\s*D\s*E\s*S\s*C\s*R\s*I\s*P\s*T\s*I\s*O\s*N) at position e
DescriptionAhead(U, e) ==
  SpacedEnd(U, e + SpaceRun(U, e), <<"D", "E", "S", "C", "R", "I", "P", "T", "I", "O", "N">>, 1) # 0

\* the lazy name group .+? begun at n0: the least end e > n0 at which the
\* lookahead holds, 0 if none
DentistNameEnd(s, U, n0) ==
  FirstOf({e \in (n0 + 1)..LineEnd(s, n0) : DescriptionAhead(U, e)})

\* the greedy \s* after the colon gives back whitespace until the rest matches
RECURSIVE DentistNameStart(_, _, _, _)
DentistNameStart(s, U, h, k) ==
  IF k < 0 THEN 0
  ELSE IF DentistNameEnd(s, U, h + k) # 0 THEN h + k
  ELSE DentistNameStart(s, U, h, k - 1)

\* the start of the name group when the header ends at h, 0 if the pattern
\* does not match (and for h = 0)
DentistGroupStart(s, U, h) ==
  IF h = 0 THEN 0 ELSE DentistNameStart(s, U, h, SpaceRun(s, h))

\* re.search(pattern, text, re.IGNORECASE): the leftmost start of a match
DentistSearch(s, U) ==
  FirstOf({i \in 1..Len(s) : DentistGroupStart(s, U, InvoiceForEnd(U, i)) # 0})

\* dentist_name.replace(' ', '')
RECURSIVE RemoveBlanks(_)
RemoveBlanks(s) ==
  IF s = <<>> THEN <<>>
  ELSE IF Head(s) = " " THEN RemoveBlanks(Tail(s))
  ELSE <<Head(s)>> \o RemoveBlanks(Tail(s))

\* re.sub(r'\.', '. ', s)
RECURSIVE SpaceAfterPeriods(_)
SpaceAfterPeriods(s) ==
  IF s = <<>> THEN <<>>
  ELSE IF Head(s) = "." THEN <<".", " ">> \o SpaceAfterPeriods(Tail(s))
  ELSE <<Head(s)>> \o SpaceAfterPeriods(Tail(s))

\* re.sub(r'([a-z])([A-Z])', r'\1 \2', s)
RECURSIVE WordBreaks(_)
WordBreaks(s) ==
  IF Len(s) < 2 THEN s
  ELSE IF s[1] \in LowerSet /\ s[2] \in UpperSet
    THEN <<s[1], " ">> \o WordBreaks(Tail(s))
    ELSE <<s[1]>> \o WordBreaks(Tail(s))

\* re.sub(r'\s+', ' ', s)
RECURSIVE CollapseSpace(_)
CollapseSpace(s) ==
  IF s = <<>> THEN <<>>
  ELSE IF IsSpace(Head(s))
    THEN <<" ">> \o CollapseSpace(SubSeq(s, SpaceRun(s, 1) + 1, Len(s)))
    ELSE <<Head(s)>> \o CollapseSpace(Tail(s))

\* step 4: re.sub(r'\s+', ' ', s).strip()
FinalName(with_word_breaks) == Strip(CollapseSpace(with_word_breaks))

\* steps 1-4 of the name reconstruction
ReconstructName(dentist_name) ==
  FinalName(WordBreaks(SpaceAfterPeriods(RemoveBlanks(dentist_name))))

\* the match whose name group starts at n0
DentistName(s, U, n0) ==
  [ok |-> TRUE,
   name |-> ReconstructName(Strip(SubSeq(s, n0, DentistNameEnd(s, U, n0) - 1)))]

\* the match that starts at position i, i = 0 for no match
DentistMatch(s, U, i) ==
  IF i = 0 THEN [ok |-> FALSE, name |-> <<>>]
  ELSE DentistName(s, U, DentistGroupStart(s, U, InvoiceForEnd(U, i)))

\* the search of _parse_dentist_name on the text and its upper case
DentistNameIn(s, U) == DentistMatch(s, U, DentistSearch(s, U))

\* _parse_dentist_name(text): [ok, name]
_parse_dentist_name(text) == DentistNameIn(text, UpperStr(text))

(***************************************************************************)
(* parser.py: parse_invoice                                                *)
(***************************************************************************)
RECURSIVE SumCost(_)
SumCost(items) ==
  IF items = <<>> THEN 0 ELSE Head(items).cost + SumCost(Tail(items))

\* _compute_alloys_extras with the slip of summing every row, the first included
SumAllCosts(line_items) == SumCost(line_items)

\* _compute_alloys_extras(line_items): the costs of rows 2 and later
_compute_alloys_extras(line_items) == SumCost(Tail(line_items))

NoRecord ==
  [dentist_name |-> <<>>, date_due |-> [year |-> 0, month |-> 0, day |-> 0],
   patient_name |-> <<>>, total_units |-> 0, unit_price |-> None,
   alloys_extras_cost |-> 0, total_cost |-> 0]

Failure(e) == [ok |-> FALSE, err |-> e, rec |-> NoRecord]

\* the totals with the slip of taking the total from the cost column
ComputeTotalsFromCosts(dentist_name, patient_name, date_due, line_items) ==
  [dentist_name |-> dentist_name,
   date_due |-> date_due,
   patient_name |-> patient_name,
   total_units |-> 1,
   unit_price |-> Some(line_items[1].unit_price),
   alloys_extras_cost |-> _compute_alloys_extras(line_items),
   total_cost |-> SumCost(line_items)]

\* the totals of parse_invoice from the extracted fields
ComputeTotals(dentist_name, patient_name, date_due, line_items) ==
  LET total_units == 1
      unit_price == line_items[1].unit_price
      alloys_extras_cost == _compute_alloys_extras(line_items)
      total_cost == unit_price + alloys_extras_cost
  IN  [dentist_name |-> dentist_name,
       date_due |-> date_due,
       patient_name |-> patient_name,
       total_units |-> total_units,
       unit_price |-> Some(unit_price),
       alloys_extras_cost |-> alloys_extras_cost,
       total_cost |-> total_cost]

\* parse_invoice without the check "if not line_items": the fallback of line 49
\* then gives a record of zero values
InvoiceFromUnchecked(dentist, pd, line_items) ==
  IF ~dentist.ok THEN Failure("DentistNameNotFound")
  ELSE IF ~pd.ok THEN Failure(pd.err)
  ELSE IF line_items = <<>>
    THEN [ok |-> TRUE, err |-> "",
          rec |-> [dentist_name |-> dentist.name, date_due |-> pd.date_due[1],
                   patient_name |-> pd.patient_name, total_units |-> 1,
                   unit_price |-> Some(0), alloys_extras_cost |-> 0,
                   total_cost |-> 0]]
  ELSE [ok |-> TRUE, err |-> "",
        rec |-> ComputeTotals(dentist.name, pd.patient_name, pd.date_due[1],
                              line_items)]

\* parse_invoice from what the three extractions return, each evaluated only
\* if the ones before it succeeded
InvoiceFrom(dentist, pd, line_items) ==
  IF ~dentist.ok THEN Failure("DentistNameNotFound")
  ELSE IF ~pd.ok THEN Failure(pd.err)
  ELSE IF line_items = <<>> THEN Failure("NoLineItems")
  ELSE [ok |-> TRUE, err |-> "",
        rec |-> ComputeTotals(dentist.name, pd.patient_name, pd.date_due[1],
                              line_items)]

\* parse_invoice(text): [ok, err, rec]; ok = FALSE stands for ValueError
parse_invoice(text) ==
  InvoiceFrom(_parse_dentist_name(text), _parse_patient_and_date(text),
              _parse_table(text))

(***************************************************************************)
(* Invoice texts: the lines that the extracted text of an invoice is made  *)
(* of.                                                                     *)
(***************************************************************************)
\* "INVOICE FOR: DR.JOHNSMITH"
HeadSpaced ==
  <<"I", "N", "V", "O", "I", "C", "E", " ", "F", "O", "R", ":", " ", "D",
    "R", ".", "J", "O", "H", "N", "S", "M", "I", "T", "H">>

\* "INVOICEFOR:DR.JOHNSMITH"
HeadUnspaced ==
  <<"I", "N", "V", "O", "I", "C", "E", "F", "O", "R", ":", "D", "R", ".",
    "J", "O", "H", "N", "S", "M", "I", "T", "H">>

\* "DESCRIPTION QUANTITY UNIT PRICE COST"
TableHeader ==
  <<"D", "E", "S", "C", "R", "I", "P", "T", "I", "O", "N", " ", "Q", "U",
    "A", "N", "T", "I", "T", "Y", " ", "U", "N", "I", "T", " ", "P", "R",
    "I", "C", "E", " ", "C", "O", "S", "T">>

\* "DESCRIPTION" alone is no table header
NoTableHeader ==
  <<"D", "E", "S", "C", "R", "I", "P", "T", "I", "O", "N">>

\* "Crown 1 $200.00 $200.00"
RowCrown ==
  <<"C", "r", "o", "w", "n", " ", "1", " ", "$", "2", "0", "0", ".", "0",
    "0", " ", "$", "2", "0", "0", ".", "0", "0">>

\* "Rebate 1 $20.00 ($20.00)"
RowRebate ==
  <<"R", "e", "b", "a", "t", "e", " ", "1", " ", "$", "2", "0", ".", "0",
    "0", " ", "(", "$", "2", "0", ".", "0", "0", ")">>

\* "Alloy 2 $15.00 $30.00"
RowAlloy ==
  <<"A", "l", "l", "o", "y", " ", "2", " ", "$", "1", "5", ".", "0", "0",
    " ", "$", "3", "0", ".", "0", "0">>

\* "Shade A2": fewer than three numeric tokens
RowShade ==
  <<"S", "h", "a", "d", "e", " ", "A", "2">>

\* "Bruxzir 1 $110.00 $110.00"
RowBruxzir ==
  <<"B", "r", "u", "x", "z", "i", "r", " ", "1", " ", "$", "1", "1", "0",
    ".", "0", "0", " ", "$", "1", "1", "0", ".", "0", "0">>

\* "Remake 1 $0.00 $0.00"
RowRemake ==
  <<"R", "e", "m", "a", "k", "e", " ", "1", " ", "$", "0", ".", "0", "0",
    " ", "$", "0", ".", "0", "0">>

\* "Implant 1 $95.00 $95.00"
RowImplant ==
  <<"I", "m", "p", "l", "a", "n", "t", " ", "1", " ", "$", "9", "5", ".",
    "0", "0", " ", "$", "9", "5", ".", "0", "0">>

\* "Total $180.00"
TotalLine ==
  <<"T", "o", "t", "a", "l", " ", "$", "1", "8", "0", ".", "0", "0">>

BlankLine == <<>>

\* "Patient: Jane Doe, Due 3/15/2024"
FootJane ==
  <<"P", "a", "t", "i", "e", "n", "t", ":", " ", "J", "a", "n", "e", " ",
    "D", "o", "e", ",", " ", "D", "u", "e", " ", "3", "/", "1", "5", "/",
    "2", "0", "2", "4">>

\* "Patient: Al Roe, Due 3/1/2024"
FootAl ==
  <<"P", "a", "t", "i", "e", "n", "t", ":", " ", "A", "l", " ", "R", "o",
    "e", ",", " ", "D", "u", "e", " ", "3", "/", "1", "/", "2", "0", "2", "4">>

\* "Patient: Cy Poe, Due 3/10/2024"
FootCy ==
  <<"P", "a", "t", "i", "e", "n", "t", ":", " ", "C", "y", " ", "P", "o",
    "e", ",", " ", "D", "u", "e", " ", "3", "/", "1", "0", "/", "2", "0",
    "2", "4">>

\* "Patient: Ned Low, Due 4/2/2024"
FootNed ==
  <<"P", "a", "t", "i", "e", "n", "t", ":", " ", "N", "e", "d", " ", "L",
    "o", "w", ",", " ", "D", "u", "e", " ", "4", "/", "2", "/", "2", "0",
    "2", "4">>

\* "Thank you": a footer without patient and due date
FootNone ==
  <<"T", "h", "a", "n", "k", " ", "y", "o", "u">>

\* '\n'.join(lines)
RECURSIVE JoinLines(_)
JoinLines(lines) ==
  IF lines = <<>> THEN <<>>
  ELSE IF Len(lines) = 1 THEN lines[1]
  ELSE lines[1] \o <<"\n">> \o JoinLines(Tail(lines))

\* the text of an invoice: dentist header, table header, rows, the lines
\* between the rows and the footer (a Total line, a blank line or none), footer
InvoiceText(head, thead, rows, stop, foot) ==
  JoinLines(<<head, thead>> \o rows \o stop \o <<foot>>)

(***************************************************************************)
(* writer.py: the month ledger.  A worksheet is the sequence of its data   *)
(* rows (row_idx 2 is element 1); a data row holds the cells of columns A  *)
(* to F.  The hidden helper column G is read by no code and is left out.   *)
(***************************************************************************)
\* a numeric cell holds a float, [float |-> cents], or nothing (None).
\* float(Decimal) and Decimal(str(float)) keep the value of an amount of at
\* most 15 significant digits, which covers every amount of the model.
FloatOf(d) == [float |-> d]

DecimalOfFloat(f) == f.float

\* isinstance(value, float): the cell is not empty
IsFloat(value) == "float" \in DOMAIN value

\* "if value" on a numeric cell: an empty cell and 0.0 are falsy
Truthy(value) == IsFloat(value) /\ value.float # 0

\* Decimal(str(value or 0))
DecimalOrZero(value) == IF Truthy(value) THEN DecimalOfFloat(value) ELSE 0

\* the decimal digits of n, zero-padded to the width
RECURSIVE ZeroPadded(_, _)
ZeroPadded(n, width) ==
  IF width = 0 THEN <<>>
  ELSE Append(ZeroPadded(n \div 10, width - 1), Digits[(n % 10) + 1])

\* date_due.strftime('%Y-%m-%d')
StrftimeYmd(d) ==
  ZeroPadded(d.year, 4) \o <<"-">> \o ZeroPadded(d.month, 2) \o <<"-">>
    \o ZeroPadded(d.day, 2)

\* date_due.strftime('%Y-%m'): the name of the month folder (get_month_folder)
MonthLabel(d) == ZeroPadded(d.year, 4) \o <<"-">> \o ZeroPadded(d.month, 2)

\* a < b on datetime values
DateLess(a, b) ==
  \/ a.year < b.year
  \/ a.year = b.year /\ a.month < b.month
  \/ a.year = b.year /\ a.month = b.month /\ a.day < b.day

\* the value of a date cell is a datetime [year, month, day] or a text
\* [text], the empty text standing for an empty cell:
\* isinstance(date_val, datetime)
IsDatetime(date_val) == "year" \in DOMAIN date_val

\* "if date_val": a datetime is truthy, a text unless it is empty
HasDate(c) == IsDatetime(c.date) \/ c.date.text # <<>>

\* datetime.strptime(str(date_val), '%Y-%m-%d'): Some([year, month, day]) or
\* None for ValueError
StrptimeYmd(date_str) ==
  LET a == DigitRun(date_str, 6, 2)
      b == DigitRun(date_str, a + 7, 2)
      y == IntOfDigits(SubSeq(date_str, 1, 4))
      m == IntOfDigits(SubSeq(date_str, 6, a + 5))
      d == IntOfDigits(SubSeq(date_str, a + 7, a + 6 + b))
  IN  IF /\ DigitRun(date_str, 1, 4) = 4
         /\ Len(date_str) = a + b + 6
         /\ date_str[5] = "-"
         /\ a >= 1
         /\ date_str[a + 6] = "-"
         /\ b >= 1
         /\ m \in 1..12
         /\ d \in 1..31
         /\ y >= 1
         /\ d <= DaysInMonth(y, m)
        THEN Some([year |-> y, month |-> m, day |-> d])
        ELSE None

\* _write_row(ws, row_idx, row_data) on a row without cells: the cells written
RowCells(row_data) ==
  [date |-> row_data.date_due,
   name |-> row_data.patient_name,
   units |-> row_data.total_units,
   unit_price |-> IF row_data.unit_price # None
                    THEN FloatOf(row_data.unit_price[1])
                    ELSE None,
   alloys |-> FloatOf(row_data.alloys_extras_cost),
   total |-> FloatOf(row_data.total_cost)]

\* _write_row(ws, row_idx, row_data) on the row with the cells c:
\* ws.cell(row, column, value=None) leaves the cell as it is, so a unit price
\* of None keeps the unit price the row had
_write_row(c, row_data) ==
  IF row_data.unit_price # None THEN RowCells(row_data)
  ELSE [RowCells(row_data) EXCEPT !.unit_price = c.unit_price]

\* the lookup key of a worksheet row (write_xlsx, lines 86-94)
CellsKey(c) ==
  <<IF IsDatetime(c.date) THEN StrftimeYmd(c.date) ELSE c.date.text,
    c.name, DecimalOfFloat(c.total)>>

\* "if date_val and name_val and total_val": an empty name and a total of
\* 0.0 are falsy
CellsKeyed(c) == HasDate(c) /\ c.name # <<>> /\ Truthy(c.total)

\* the lookup key of a row dict (write_xlsx, lines 99-100)
RowKey(row_data) ==
  <<StrftimeYmd(row_data.date_due), row_data.patient_name, row_data.total_cost>>

\* existing_rows.get(key): the last worksheet row entered under the key, 0 if
\* the key is not in the dict
ExistingIdx(ws, key) ==
  LET hits == {i \in 1..Len(ws) : CellsKeyed(ws[i]) /\ CellsKey(ws[i]) = key}
  IN  IF hits = {} THEN 0 ELSE CHOOSE i \in hits : \A j \in hits : j <= i

\* the loop "for row_data in rows" of write_xlsx; ws0 is the worksheet the
\* dict existing_rows was built from
RECURSIVE UpsertRows(_, _, _)
UpsertRows(ws, ws0, rows) ==
  IF rows = <<>> THEN ws
  ELSE LET row_data == Head(rows)
           row_idx == ExistingIdx(ws0, RowKey(row_data))
       IN  UpsertRows(IF row_idx # 0
                        THEN [ws EXCEPT ![row_idx] = _write_row(@, row_data)]
                        ELSE Append(ws, RowCells(row_data)),
                      ws0, Tail(rows))

\* the sort key "r[0] if isinstance(r[0], datetime) else datetime.max": a < b
SortKeyLess(a, b) == IsDatetime(a) /\ (IsDatetime(b) => DateLess(a, b))

\* list.sort(key=...): the stable insertion of one row
RECURSIVE InsertByDate(_, _)
InsertByDate(sorted, r) ==
  IF sorted = <<>> THEN <<r>>
  ELSE IF SortKeyLess(r.date, sorted[Len(sorted)].date)
    THEN Append(InsertByDate(SubSeq(sorted, 1, Len(sorted) - 1), r),
                sorted[Len(sorted)])
    ELSE Append(sorted, r)

\* data_rows.sort(key=...)
RECURSIVE SortByKey(_)
SortByKey(data_rows) ==
  IF data_rows = <<>> THEN <<>>
  ELSE InsertByDate(SortByKey(SubSeq(data_rows, 1, Len(data_rows) - 1)),
                    data_rows[Len(data_rows)])

\* _sort_by_date(ws): the rows that have a date are sorted and written back
\* from row 2 on; the rows below them stay as they were
_sort_by_date(ws) ==
  LET data_rows == SortByKey(SelectSeq(ws, HasDate))
  IN  data_rows \o SubSeq(ws, Len(data_rows) + 1, Len(ws))

\* write_xlsx(month_folder, rows) on the worksheet of the month: file is None
\* when the XLSX file does not exist.  The saved worksheet.
write_xlsx(file, rows) ==
  LET ws0 == IF file = None THEN <<>> ELSE file[1]
  IN  _sort_by_date(UpsertRows(ws0, ws0, rows))

\* the row dict that load_existing_rows makes of a worksheet row
LoadedRow(c) ==
  [dentist_name |-> <<>>,
   date_due |-> IF IsDatetime(c.date) THEN c.date ELSE StrptimeYmd(c.date.text)[1],
   patient_name |-> c.name,
   total_units |-> c.units,
   unit_price |-> IF Truthy(c.unit_price)
                    THEN Some(DecimalOfFloat(c.unit_price))
                    ELSE None,
   alloys_extras_cost |-> DecimalOrZero(c.alloys),
   total_cost |-> DecimalOrZero(c.total)]

\* load_existing_rows(month_folder): [ok, rows]; ok = FALSE stands for the
\* ValueError of strptime on a text that is no date
load_existing_rows(file) ==
  IF file = None THEN [ok |-> TRUE, rows |-> <<>>]
  ELSE LET dated == SelectSeq(file[1], HasDate)
       IN  IF \E i \in 1..Len(dated) :
                ~IsDatetime(dated[i].date) /\ StrptimeYmd(dated[i].date.text) = None
             THEN [ok |-> FALSE, rows |-> <<>>]
             ELSE [ok |-> TRUE,
                   rows |-> [i \in 1..Len(dated) |-> LoadedRow(dated[i])]]

\* sorted(rows, key=lambda r: r['date_due']) on row dicts
RECURSIVE InsertRowByDate(_, _)
InsertRowByDate(sorted, r) ==
  IF sorted = <<>> THEN <<r>>
  ELSE IF DateLess(r.date_due, sorted[Len(sorted)].date_due)
    THEN Append(InsertRowByDate(SubSeq(sorted, 1, Len(sorted) - 1), r),
                sorted[Len(sorted)])
    ELSE Append(sorted, r)

RECURSIVE SortedRows(_)
SortedRows(rows) ==
  IF rows = <<>> THEN <<>>
  ELSE InsertRowByDate(SortedRows(SubSeq(rows, 1, Len(rows) - 1)), rows[Len(rows)])

\* write_csv(month_folder, rows): the data lines of the CSV file
write_csv(rows) ==
  LET sorted_rows == SortedRows(rows)
  IN  [i \in 1..Len(sorted_rows) |->
         [date |-> sorted_rows[i].date_due,
          name |-> sorted_rows[i].patient_name,
          units |-> sorted_rows[i].total_units,
          unit_price |-> IF sorted_rows[i].unit_price # None
                              /\ sorted_rows[i].unit_price[1] # 0
                           THEN sorted_rows[i].unit_price
                           ELSE None,
          alloys |-> sorted_rows[i].alloys_extras_cost,
          total |-> sorted_rows[i].total_cost]]

(***************************************************************************)
(* report_generator.py: build_report_pdf                                   *)
(***************************************************************************)
RECURSIVE SumTotalCost(_)
SumTotalCost(rows) ==
  IF rows = <<>> THEN 0 ELSE Head(rows).total_cost + SumTotalCost(Tail(rows))

\* "Unknown Dentist"
UnknownDentist == <<"U", "n", "k", "n", "o", "w", "n", " ", "D", "e", "n", "t", "i", "s", "t">>

\* d - timedelta(days=1)
DayBefore(d) ==
  IF d.day > 1 THEN [d EXCEPT !.day = @ - 1]
  ELSE IF d.month > 1
    THEN [year |-> d.year, month |-> d.month - 1, day |-> DaysInMonth(d.year, d.month - 1)]
  ELSE [year |-> d.year - 1, month |-> 12, day |-> 31]

\* datetime.strptime(year_month, '%Y-%m') on a folder name YYYY-MM
StrptimeYm(label) ==
  [year |-> IntOfDigits(SubSeq(label, 1, 4)),
   month |-> IntOfDigits(SubSeq(label, 6, 7)),
   day |-> 1]

\* the last day of the month of the folder name (lines 82-91): the 31st in
\* December, the day before the first of the next month otherwise
LastDay(label) ==
  IF StrptimeYm(label).month = 12
    THEN [StrptimeYm(label) EXCEPT !.day = 31]
    ELSE DayBefore([StrptimeYm(label) EXCEPT !.month = @ + 1, !.day = 1])

\* the payment due date without the step into the next year
PaymentDueSameYear(last_day) ==
  [year |-> last_day.year, month |-> last_day.month + 1, day |-> 25]

\* the payment due date (lines 264-267), for a last day before the year
\* 9999, the last one that datetime.replace accepts
PaymentDue(last_day) ==
  IF last_day.month = 12
    THEN [year |-> last_day.year + 1, month |-> 1, day |-> 25]
    ELSE [year |-> last_day.year, month |-> last_day.month + 1, day |-> 25]

\* build_report_pdf(month_folder, rows): the content of the report
build_report_pdf(label, rows) ==
  LET sorted_rows == SortedRows(rows)
  IN  [dentist_name |-> IF sorted_rows # <<>> THEN sorted_rows[1].dentist_name
                        ELSE UnknownDentist,
       last_day |-> LastDay(label),
       table |-> [i \in 1..Len(sorted_rows) |->
                    [date |-> sorted_rows[i].date_due,
                     name |-> sorted_rows[i].patient_name,
                     units |-> sorted_rows[i].total_units,
                     unit_price |-> IF sorted_rows[i].unit_price # None
                                         /\ sorted_rows[i].unit_price[1] # 0
                                      THEN sorted_rows[i].unit_price
                                      ELSE None,
                     alloys |-> sorted_rows[i].alloys_extras_cost,
                     total |-> sorted_rows[i].total_cost]],
       total |-> SumTotalCost(sorted_rows),
       payment_due |-> PaymentDue(LastDay(label))]

(***************************************************************************)
(* The documents of the model and the files that hold them.                *)
(***************************************************************************)
\* the extracted text of each document
DocText ==
  << InvoiceText(HeadSpaced, TableHeader, <<RowCrown, RowRebate>>, <<TotalLine>>, FootJane),
     InvoiceText(HeadSpaced, TableHeader, <<RowBruxzir>>, <<TotalLine>>, FootAl),
     InvoiceText(HeadSpaced, TableHeader, <<RowRemake>>, <<TotalLine>>, FootCy),
     InvoiceText(HeadSpaced, TableHeader, <<RowShade>>, <<TotalLine>>, FootJane),
     InvoiceText(HeadSpaced, TableHeader, <<RowImplant>>, <<BlankLine>>, FootNed) >>

\* parse_invoice on the text of the documents 1..k
RECURSIVE ParsedDocs(_)
ParsedDocs(k) ==
  IF k = 0 THEN <<>> ELSE Append(ParsedDocs(k - 1), parse_invoice(DocText[k]))

\* parse_invoice on the text of each document
ParsedDoc == ParsedDocs(Len(DocText))

PdfPath(base) == [base |-> base, ext |-> "pdf"]

PagesPath(base) == [base |-> base, ext |-> "pages"]

\* the invoice files the user can select, with the document each holds
InitialDisk ==
  (PdfPath("a") :> 1) @@ (PagesPath("b") :> 2) @@ (PdfPath("c") :> 3)
    @@ (PdfPath("f") :> 4) @@ (PdfPath("n") :> 5)

\* the month folders: the months of the due dates of the documents
Months ==
  {MonthLabel(ParsedDoc[d].rec.date_due) : d \in {e \in 1..Len(DocText) : ParsedDoc[e].ok}}

\* the most files submitted in all batches together
MaxFiles == 3

\* the most files in one batch
MaxBatch == 3

\* the name the user types over the detected one: "DR. X"
EditedName == <<"D", "R", ".", " ", "X">>

(***************************************************************************)
(* The inputs of the parser: invoice texts and table lines.                *)
(***************************************************************************)
\* the sequences of at most n elements of S
RECURSIVE SeqsUpTo(_, _)
SeqsUpTo(S, n) ==
  IF n = 0 THEN {<<>>}
  ELSE SeqsUpTo(S, n - 1) \cup
       {Append(q, x) : q \in {r \in SeqsUpTo(S, n - 1) : Len(r) = n - 1}, x \in S}

\* the most rows in the table of an invoice text
MaxRows == 3

\* the invoice texts given to parse_invoice
InvoiceTexts ==
  {InvoiceText(head, thead, rows, stop, foot) :
     head \in {HeadSpaced, HeadUnspaced},
     thead \in {TableHeader, NoTableHeader},
     rows \in SeqsUpTo({RowCrown, RowRebate, RowAlloy, RowShade}, MaxRows),
     stop \in {<<TotalLine>>, <<BlankLine>>, <<>>},
     foot \in {FootJane, FootNone}}

\* the text "a b" of two texts
Spaced(a, b) == a \o <<" ">> \o b

\* the descriptions of the table lines: plain, with parentheses, and with
\* digits: "Bruxzir #3 Shade C1", "Implant 3.5 x 10 #14"
RowDescriptions ==
  { <<"R", "e", "b", "a", "t", "e">>,
    <<"D", "i", "s", "c", "o", "u", "n", "t", " ", "(", "R", "e", "b", "a", "t", "e", ")">>,
    <<"C", "r", "o", "w", "n">>,
    <<"B", "r", "u", "x", "z", "i", "r", " ", "#", "3", " ", "S", "h", "a", "d", "e", " ", "C", "1">>,
    <<"I", "m", "p", "l", "a", "n", "t", " ", "3", ".", "5", " ", "x", " ", "1", "0", " ", "#", "1", "4">> }

\* what stands before the description: nothing, or a pipe and a blank
RowLeads == {<<>>, <<"|", " ">>}

RowQuantities == {<<"1">>, <<"2">>}

RowUnitPrices ==
  { <<"1", "1", "0", ".", "0", "0">>,
    <<"$", " ", "1", "1", "0", ".", "0", "0">>,
    <<"$", "1", ",", "2", "3", "4", ".", "5", "0">> }

RowCosts ==
  { <<"1", "1", "0", ".", "0", "0">>,
    <<"$", " ", "1", "1", "0", ".", "0", "0">>,
    <<"(", "1", "1", "0", ".", "0", "0", ")">>,
    <<"(", "$", " ", "1", "1", "0", ".", "0", "0", ")">>,
    <<"$", "1", ",", "2", "3", "4", ".", "5", "0">>,
    <<"(", "$", "1", ",", "2", "3", "4", ".", "5", "0", ")">> }

\* the table line of a description, a quantity, a unit price and a cost
RowLine(lead, description, quantity, unit_price, cost) ==
  lead \o Spaced(Spaced(description, quantity), Spaced(unit_price, cost))

\* the table lines given to _parse_table_row: description, quantity, unit
\* price and cost, and a line without numbers
RowLines ==
  {RowLine(lead, description, quantity, unit_price, cost) :
     lead \in RowLeads, description \in RowDescriptions, quantity \in RowQuantities,
     unit_price \in RowUnitPrices, cost \in RowCosts}
    \cup {RowShade, RowCrown, RowRebate}

(***************************************************************************)
(* The inputs of _parse_patient_and_date: footers of invoice texts.        *)
(***************************************************************************)
\* "Patient:", "PATIENT:", "patient :" and "Patient" without a colon
PatientPrefixes ==
  { <<"P", "a", "t", "i", "e", "n", "t", ":">>,
    <<"P", "A", "T", "I", "E", "N", "T", ":">>,
    <<"p", "a", "t", "i", "e", "n", "t", " ", ":">>,
    <<"P", "a", "t", "i", "e", "n", "t">> }

\* "Jane Doe" and "Al Roe, DDS"
PatientNames ==
  { <<"J", "a", "n", "e", " ", "D", "o", "e">>,
    <<"A", "l", " ", "R", "o", "e", ",", " ", "D", "D", "S">> }

\* ", Due ", ",due", ",  DUE" and " Due " without a comma
DueMarks ==
  { <<",", " ", "D", "u", "e", " ">>,
    <<",", "d", "u", "e">>,
    <<",", " ", " ", "D", "U", "E">>,
    <<" ", "D", "u", "e", " ">> }

\* the texts after "Due": dates of the calendar, dates that no calendar has,
\* and texts that are not of the form m/d/yyyy
DueDates ==
  { <<"3", "/", "1", "5", "/", "2", "0", "2", "4">>,
    <<"0", "3", "/", "0", "5", "/", "2", "0", "2", "4">>,
    <<"1", "2", "/", "3", "1", "/", "2", "0", "2", "3">>,
    <<"2", "/", "2", "9", "/", "2", "0", "2", "4">>,
    <<"2", "/", "2", "9", "/", "2", "0", "0", "0">>,
    <<"1", "/", "1", "/", "0", "0", "0", "1">>,
    <<"2", "/", "3", "0", "/", "2", "0", "2", "4">>,
    <<"1", "3", "/", "1", "/", "2", "0", "2", "4">>,
    <<"2", "/", "2", "9", "/", "2", "0", "2", "3">>,
    <<"2", "/", "2", "9", "/", "1", "9", "0", "0">>,
    <<"4", "/", "3", "1", "/", "2", "0", "2", "4">>,
    <<"0", "/", "5", "/", "2", "0", "2", "4">>,
    <<"5", "/", "0", "/", "2", "0", "2", "4">>,
    <<"1", "/", "1", "/", "0", "0", "0", "0">>,
    <<"1", "5", "/", "3", "/", "2", "0", "2", "4">>,
    <<"3", "/", "1", "5", "/", "2", "4">>,
    <<"3", "-", "1", "5", "-", "2", "0", "2", "4">>,
    <<"1", "2", "3", "/", "1", "/", "2", "0", "2", "4">>,
    <<"3", "/", "1", "5", "/", "2", "0", "2", "4", "5">>,
    <<"M", "a", "r", "c", "h", " ", "1", "5">> }

\* "Patient: Jane Doe, Due 3/15/2024" and the like
PatientLine(prefix, name, mark, date) == prefix \o <<" ">> \o name \o mark \o date

\* the text of a footer: a Total line, the patient line, "Thank you"
PatientText(prefix, name, mark, date) ==
  JoinLines(<<TotalLine, PatientLine(prefix, name, mark, date), FootNone>>)

\* the texts given to _parse_patient_and_date
PatientTexts ==
  {PatientText(prefix, name, mark, date) :
     prefix \in PatientPrefixes, name \in PatientNames, mark \in DueMarks,
     date \in DueDates}

(***************************************************************************)
(* The inputs of _parse_dentist_name: headers of invoice texts.            *)
(***************************************************************************)
\* "ACCUDENT DENTAL LAB": the line above the header
LabLine ==
  <<"A", "C", "C", "U", "D", "E", "N", "T", " ", "D", "E", "N", "T", "A",
    "L", " ", "L", "A", "B">>

\* spellings of "INVOICE FOR:" with and without whitespace between the
\* characters, and headers that are none: "BILL TO:", "INVOICE FOR" without
\* the colon, "INVOICE FROM:"
InvoiceForHeaders ==
  { <<"I", "N", "V", "O", "I", "C", "E", " ", "F", "O", "R", ":">>,
    <<"I", "N", "V", "O", "I", "C", "E", "F", "O", "R", ":">>,
    <<"I", " ", "N", " ", "V", " ", "O", " ", "I", " ", "C", " ", "E", " ", "F", " ", "O", " ", "R", " ", ":">>,
    <<"I", " ", "N", " ", "V", " ", "O", " ", "I", " ", "C", " ", "E", " ", " ", " ", "F", " ", "O", " ", "R", " ", ":">>,
    <<"I", "N", "V", "O", "I", "C", "E", " ", " ", "F", "O", "R", " ", ":">>,
    <<"I", "N", "V", "O", "I", "C", "E", "\n", "F", "O", "R", ":">>,
    <<"I", "N", "V", "O", "I", "C", "E", " ", "F", " ", "O", "R", ":">>,
    <<"I", "N", " ", "V", "O", "I", "C", "E", " ", "F", "O", "R", ":">>,
    <<"B", "I", "L", "L", " ", "T", "O", ":">>,
    <<"I", "N", "V", "O", "I", "C", "E", " ", "F", "O", "R">>,
    <<"I", "N", "V", "O", "I", "C", "E", " ", "F", "R", "O", "M", ":">> }

\* what stands between the colon and the name
HeaderGaps == {<<>>, <<" ">>}

\* "DR.JOHNSMITH", "D R . J O H N S M I T H" and "Dr. Amy Lee"
DentistNames ==
  { <<"D", "R", ".", "J", "O", "H", "N", "S", "M", "I", "T", "H">>,
    <<"D", " ", "R", " ", ".", " ", "J", " ", "O", " ", "H", " ", "N", " ", "S", " ", "M", " ", "I", " ", "T", " ", "H">>,
    <<"D", "r", ".", " ", "A", "m", "y", " ", "L", "e", "e">> }

\* what stands between the name and the table header
NameGaps == {<<"\n">>, <<" ">>}

\* the table header, plain and with a space between all characters
SpacedTableHeader ==
  <<"D", " ", "E", " ", "S", " ", "C", " ", "R", " ", "I", " ", "P", " ",
    "T", " ", "I", " ", "O", " ", "N", " ", "Q", " ", "U", " ", "A", " ",
    "N", " ", "T", " ", "I", " ", "T", " ", "Y", " ", "U", " ", "N", " ",
    "I", " ", "T", " ", "P", " ", "R", " ", "I", " ", "C", " ", "E", " ",
    "C", " ", "O", " ", "S", " ", "T">>

\* "ITEM QTY PRICE": a table header without DESCRIPTION
ItemHeader ==
  <<"I", "T", "E", "M", " ", "Q", "T", "Y", " ", "P", "R", "I", "C", "E">>

DescriptionLines == {TableHeader, SpacedTableHeader, NoTableHeader, ItemHeader}

\* the text of a header: the lab line, "INVOICE FOR:", the name, the table
\* header and a row
DentistText(header, gap, name, name_gap, thead) ==
  LabLine \o <<"\n">> \o header \o gap \o name \o name_gap \o thead
    \o <<"\n">> \o RowCrown

\* names as the extraction of the PDF text leaves them: with a tab between
\* the words, "JOHN\tSMITH" and "Dr.\tAmy\tLee", with blanks between the
\* characters, and "SmithJohn"
SpanNames ==
  { <<"J", "O", "H", "N", "\t", "S", "M", "I", "T", "H">>,
    <<"D", "r", ".", "\t", "A", "m", "y", "\t", "L", "e", "e">>,
    <<"D", " ", "R", " ", ".", " ", "J", " ", "O", " ", "H", " ", "N", " ", " ", "S", " ", "M", " ", "I", " ", "T", " ", "H">>,
    <<"S", "m", "i", "t", "h", "J", "o", "h", "n">>,
    <<"D", "R", ".", "J", "O", "H", "N", "S", "M", "I", "T", "H">> }

\* the text of such a name after "INVOICE FOR: "
SpanText(name) ==
  DentistText(<<"I", "N", "V", "O", "I", "C", "E", " ", "F", "O", "R", ":">>, <<" ">>, name, <<"\n">>, TableHeader)

\* the texts given to _parse_dentist_name
DentistTexts ==
  {DentistText(header, gap, name, name_gap, thead) :
     header \in InvoiceForHeaders, gap \in HeaderGaps, name \in DentistNames,
     name_gap \in NameGaps, thead \in DescriptionLines}
    \cup {SpanText(name) : name \in SpanNames}

(***************************************************************************)
(* The inputs of _parse_table: the lines of a table.                       *)
(***************************************************************************)
\* "Description Quantity Unit Price Cost"
LowerTableHeader ==
  <<"D", "e", "s", "c", "r", "i", "p", "t", "i", "o", "n", " ", "Q", "u",
    "a", "n", "t", "i", "t", "y", " ", "U", "n", "i", "t", " ", "P", "r",
    "i", "c", "e", " ", "C", "o", "s", "t">>

\* "DESCRIPTION QUANTITY COST": a header without UNIT PRICE
PartialHeader ==
  <<"D", "E", "S", "C", "R", "I", "P", "T", "I", "O", "N", " ", "Q", "U",
    "A", "N", "T", "I", "T", "Y", " ", "C", "O", "S", "T">>

\* the spellings of the table header: plain, with a space between all
\* characters, in lower case
TableHeaderSpellings == {TableHeader, SpacedTableHeader, LowerTableHeader}

\* "Totalcare 1 $50.00 $50.00": a row whose description starts with "Total"
RowTotalcare ==
  <<"T", "o", "t", "a", "l", "c", "a", "r", "e", " ", "1", " ", "$", "5",
    "0", ".", "0", "0", " ", "$", "5", "0", ".", "0", "0">>

\* "  ": a line of blanks
SpaceLine == <<" ", " ">>

\* "Subtotal $220.00"
SubtotalLine ==
  <<"S", "u", "b", "t", "o", "t", "a", "l", " ", "$", "2", "2", "0", ".",
    "0", "0">>

\* "SUB-TOTAL 220.00"
SubDashLine ==
  <<"S", "U", "B", "-", "T", "O", "T", "A", "L", " ", "2", "2", "0", ".",
    "0", "0">>

\* "TOTAL 3 $220.00 $220.00": a total line with three numeric tokens
TotalRowLine ==
  <<"T", "O", "T", "A", "L", " ", "3", " ", "$", "2", "2", "0", ".", "0",
    "0", " ", "$", "2", "2", "0", ".", "0", "0">>

\* the lines above the line in the place of the header
TablePrefixes == {<<RowCrown>>, <<PartialHeader>>}

\* the lines in the place of the header
HeaderPlaces == TableHeaderSpellings \cup {PartialHeader}

\* the lines below it: rows, a line without numbers and a second header
TableLines == {RowCrown, RowShade, RowTotalcare, TableHeader}

\* the line that ends the table, if any
TableStops ==
  {<<>>, <<BlankLine>>, <<SpaceLine>>, <<SubtotalLine>>, <<SubDashLine>>,
   <<TotalRowLine>>}

\* the lines after that line
TableRests == {<<>>, <<RowAlloy>>}

\* the text of a table: the lines above, the line in the place of the
\* header, the lines below, the line that ends the table and the rest
TableText(prefix, header, body, stop, rest) ==
  JoinLines(prefix \o <<header>> \o body \o stop \o rest)

\* the texts given to _parse_table
TableTexts ==
  {TableText(prefix, header, body, stop, rest) :
     prefix \in TablePrefixes, header \in HeaderPlaces,
     body \in SeqsUpTo(TableLines, MaxRows), stop \in TableStops,
     rest \in TableRests}

(***************************************************************************)
(* The inputs of the statement dates: month labels.                        *)
(***************************************************************************)
\* the years of the labels: leap years, years divisible by 100 that are and
\* are not leap years, common years, and the first year of datetime
ReportYears == {1, 1900, 1999, 2000, 2023, 2024, 2025, 2100, 2400}

\* the folder names YYYY-MM of these years
MonthLabels ==
  {MonthLabel([year |-> y, month |-> m, day |-> 1]) : y \in ReportYears, m \in 1..12}

(***************************************************************************)
(* The inputs of write_xlsx: worksheets and row dicts.                     *)
(***************************************************************************)
\* a row dict like those of parse_invoice
RowDict(date_due, patient_name, unit_price, alloys_extras_cost) ==
  [dentist_name |-> ParsedDoc[1].rec.dentist_name,
   date_due |-> date_due,
   patient_name |-> patient_name,
   total_units |-> 1,
   unit_price |-> Some(unit_price),
   alloys_extras_cost |-> alloys_extras_cost,
   total_cost |-> unit_price + alloys_extras_cost]

\* the row dicts given to write_xlsx: the records of the documents 1 to 3
\* (totals 220.00, 110.00 and 0.00), a record with the key of the first and
\* other prices, and a record with a negative total
RowDicts ==
  {ParsedDoc[1].rec, ParsedDoc[2].rec, ParsedDoc[3].rec,
   RowDict(ParsedDoc[1].rec.date_due, ParsedDoc[1].rec.patient_name, 22000, 0),
   RowDict(ParsedDoc[3].rec.date_due, ParsedDoc[3].rec.patient_name, 0, -2000)}

\* the most data rows of a worksheet given to write_xlsx
MaxLedger == 2

\* the most row dicts given to write_xlsx
MaxNew == 3

\* the worksheets that write_xlsx has saved
WrittenWorksheets ==
  {_sort_by_date(ws) : ws \in SeqsUpTo({RowCells(r) : r \in RowDicts}, MaxLedger)}

\* a row whose cells the user has cleared in the spreadsheet program
ClearedCells ==
  [date |-> [text |-> <<>>], name |-> <<>>, units |-> 0, unit_price |-> None,
   alloys |-> None, total |-> None]

\* a row after the user has edited it in the spreadsheet program: the date
\* replaced by the text "n/a" or by the text of the date, or the row cleared
HandEdits(c) ==
  {[c EXCEPT !.date = [text |-> <<"n", "/", "a">>]],
   [c EXCEPT !.date = [text |-> StrftimeYmd(c.date)]],
   ClearedCells}

\* the worksheet ws with one row edited by hand
HandEdited(ws) ==
  UNION {{[ws EXCEPT ![i] = e] : e \in HandEdits(ws[i])} : i \in 1..Len(ws)}

\* the worksheets given to write_xlsx: as write_xlsx saved them, or with one
\* row edited by hand since
Worksheets ==
  WrittenWorksheets \cup UNION {HandEdited(ws) : ws \in WrittenWorksheets}

VARIABLES
  processing,             \* self.processing
  exceptions,             \* self.exceptions: (file path, error text)
  current_month_folder,   \* self.current_month_folder
  csv_mirror_enabled,     \* self.csv_mirror_enabled
  dentist_name_override,  \* self.dentist_name_override
  wpc,                    \* where the worker thread is: "none" when no thread runs
  file_paths,             \* the batch of the worker
  fidx,                   \* the index of the next file of the batch
  months_data,            \* months_data: in insertion order, (month folder, rows)
  widx,                   \* the index of the next month to write
  dialog,                 \* the dentist name dialog: "none", "scheduled", "open"
  detected_name,          \* the name the dialog was asked to show
  result_queue,           \* result_queue of _prompt_dentist_name
  finish_ui,              \* the posted call of _finish_processing_ui: its success flag
  disk,                   \* the invoice files on disk: path -> document
  xlsx,                   \* month folder -> the XLSX worksheet, None if no file
  csv,                    \* month folder -> the CSV data lines, None if no file
  report,                 \* month folder -> the report, None if no file
  submitted,              \* the number of files submitted so far
  outcomes,               \* per file of the batch: records and exceptions it added
  write_error,            \* the exception caught at line 312, None if none was raised
  btn_reset,              \* the Reset button is enabled (state NORMAL)
  parse_text,             \* the text given to parse_invoice or to one of its parts
  inv_out,                \* what parse_invoice returned for parse_text
  row_line,               \* the line given to _parse_table_row
  row_out,                \* what _parse_table_row returned for row_line
  ledger_in,              \* the XLSX worksheet given to write_xlsx, None if no file
  rows_in,                \* the row dicts given to write_xlsx
  ledger_out,             \* the worksheet write_xlsx saved
  patient_out,            \* what _parse_patient_and_date returned for parse_text
  dentist_out,            \* what _parse_dentist_name returned for parse_text
  table_out,              \* what _parse_table returned for parse_text
  label_in,               \* the name of the month folder given to build_report_pdf
  dates_out               \* the period end and the payment due date of the report

appvars ==
  <<processing, exceptions, current_month_folder, csv_mirror_enabled,
    dentist_name_override, wpc, file_paths, fidx, months_data, widx, dialog,
    detected_name, result_queue, finish_ui, disk, xlsx, csv, report, submitted,
    outcomes, write_error, btn_reset>>

parsevars ==
  <<parse_text, inv_out, row_line, row_out, ledger_in, rows_in, ledger_out,
    patient_out, dentist_out, table_out, label_in, dates_out>>

vars == <<appvars, parsevars>>

\* AccudentApp.__init__ with empty month folders
AppInit ==
  /\ processing = FALSE
  /\ exceptions = <<>>
  /\ current_month_folder = None
  /\ csv_mirror_enabled = TRUE
  /\ dentist_name_override = <<>>
  /\ wpc = "none"
  /\ file_paths = <<>>
  /\ fidx = 1
  /\ months_data = <<>>
  /\ widx = 1
  /\ dialog = "none"
  /\ detected_name = <<>>
  /\ result_queue = None
  /\ finish_ui = None
  /\ disk = InitialDisk
  /\ xlsx = [m \in Months |-> None]
  /\ csv = [m \in Months |-> None]
  /\ report = [m \in Months |-> None]
  /\ submitted = 0
  /\ outcomes = <<>>
  /\ write_error = None
  /\ btn_reset = FALSE

\* no call of parse_invoice is under way
ParseIdle ==
  /\ parse_text = <<>>
  /\ inv_out = None

\* no call of _parse_table_row is under way
RowIdle ==
  /\ row_line = <<>>
  /\ row_out = None

\* no call of write_xlsx outside the application is under way
MergeIdle ==
  /\ ledger_in = None
  /\ rows_in = <<>>
  /\ ledger_out = None

\* no call of a part of parse_invoice is under way
PartsIdle ==
  /\ patient_out = None
  /\ dentist_out = None
  /\ table_out = None

\* no call of build_report_pdf outside the application is under way
DatesIdle ==
  /\ label_in = <<>>
  /\ dates_out = None

Init == AppInit /\ ParseIdle /\ RowIdle /\ MergeIdle /\ PartsIdle /\ DatesIdle

(***************************************************************************)
(* accudent_app.py: the batch worker and the user interface thread.        *)
(***************************************************************************)
\* the batches the user can select: sequences of files on disk
RECURSIVE Batches(_)
Batches(n) ==
  IF n = 0 THEN {<<>>}
  ELSE Batches(n - 1) \cup
       {Append(b, f) : b \in {c \in Batches(n - 1) : Len(c) = n - 1},
                       f \in DOMAIN InitialDisk}

Min(a, b) == IF a < b THEN a ELSE b

\* _process_files without the check of self.processing (lines 191-193)
ProcessFilesUnchecked ==
  /\ \E batch \in Batches(Min(MaxBatch, MaxFiles - submitted)) :
       /\ batch # <<>>
       /\ file_paths' = batch
       /\ submitted' = submitted + Len(batch)
  /\ processing' = TRUE
  /\ exceptions' = <<>>
  /\ wpc' = "files"
  /\ fidx' = 1
  /\ months_data' = <<>>
  /\ widx' = 1
  /\ outcomes' = <<>>
  /\ write_error' = None
  /\ UNCHANGED <<current_month_folder, csv_mirror_enabled, dentist_name_override,
                 dialog, detected_name, result_queue, finish_ui, disk, xlsx, csv,
                 report, btn_reset, parsevars>>

\* _process_files(file_paths): refused while a batch is in progress
ProcessFiles ==
  /\ ~processing
  /\ \E batch \in Batches(Min(MaxBatch, MaxFiles - submitted)) :
       /\ batch # <<>>
       /\ file_paths' = batch
       /\ submitted' = submitted + Len(batch)
  /\ processing' = TRUE
  /\ exceptions' = <<>>
  /\ wpc' = "files"
  /\ fidx' = 1
  /\ months_data' = <<>>
  /\ widx' = 1
  /\ outcomes' = <<>>
  /\ write_error' = None
  /\ UNCHANGED <<current_month_folder, csv_mirror_enabled, dentist_name_override,
                 dialog, detected_name, result_queue, finish_ui, disk, xlsx, csv,
                 report, btn_reset, parsevars>>

\* the grouping with the slip of adding the record to the month of the file
\* before it
AddToLastMonth(md, label, rec) ==
  IF md = <<>> THEN <<[month |-> label, rows |-> <<rec>>]>>
  ELSE [md EXCEPT ![Len(md)].rows = Append(@, rec)]

\* months_data[month_folder].append(parsed_data), a new month going last
AddToMonth(md, label, rec) ==
  IF \E k \in 1..Len(md) : md[k].month = label
    THEN [k \in 1..Len(md) |->
            IF md[k].month = label
              THEN [md[k] EXCEPT !.rows = Append(@, rec)]
              ELSE md[k]]
    ELSE Append(md, [month |-> label, rows |-> <<rec>>])

\* the number of rows in months_data
RECURSIVE CountRows(_)
CountRows(md) ==
  IF md = <<>> THEN 0 ELSE Len(Head(md).rows) + CountRows(Tail(md))

\* ensure_pdf(file_path) on the files of the disk d: a PDF is returned as it
\* is; a .pages file is converted unless the PDF of its name exists already.
\* conv_ok: the conversion succeeds.  [ok, pdf_path, disk]
ensure_pdf(file_path, d, conv_ok) ==
  IF file_path.ext = "pdf"
    THEN [ok |-> TRUE, pdf_path |-> file_path, disk |-> d]
  ELSE IF PdfPath(file_path.base) \in DOMAIN d
    THEN [ok |-> TRUE, pdf_path |-> PdfPath(file_path.base), disk |-> d]
  ELSE IF conv_ok
    THEN [ok |-> TRUE, pdf_path |-> PdfPath(file_path.base),
          disk |-> (PdfPath(file_path.base) :> d[file_path]) @@ d]
  ELSE [ok |-> FALSE, pdf_path |-> file_path, disk |-> d]

\* parse_invoice(extract_text(pdf_path)) on the files of the disk d
ExtractAndParse(pdf_path, d) ==
  IF pdf_path \in DOMAIN d THEN ParsedDoc[d[pdf_path]] ELSE Failure("ExtractError")

\* Path(pdf_to_cleanup).unlink() where pdf_to_cleanup is set and exists;
\* unlink_ok: the file can be deleted
CleanedUp(file_path, pdf_path, d, unlink_ok) ==
  IF file_path.ext = "pages" /\ pdf_path \in DOMAIN d /\ unlink_ok
    THEN [q \in DOMAIN d \ {pdf_path} |-> d[q]]
    ELSE d

\* the unlink of the try block (lines 253-254) raises
UnlinkFails(file_path, pdf_path, d, unlink_ok) ==
  file_path.ext = "pages" /\ pdf_path \in DOMAIN d /\ ~unlink_ok

\* the rest of the try block after parse_invoice, and the handler
AfterParse(file_path, md, unlink_ok, ensured, parsed) ==
  [disk |-> CleanedUp(file_path, ensured.pdf_path, ensured.disk, unlink_ok),
   months_data |-> IF parsed.ok
                     THEN AddToMonth(md, MonthLabel(parsed.rec.date_due), parsed.rec)
                     ELSE md,
   errors |-> IF ~parsed.ok THEN <<parsed.err>>
              ELSE IF UnlinkFails(file_path, ensured.pdf_path, ensured.disk, unlink_ok)
                THEN <<"UnlinkError">>
              ELSE <<>>]

\* the try block with a handler that records nothing for a failed conversion
AfterEnsureSilent(file_path, md, unlink_ok, ensured) ==
  IF ~ensured.ok
    THEN [disk |-> ensured.disk, months_data |-> md, errors |-> <<>>]
    ELSE AfterParse(file_path, md, unlink_ok, ensured,
                    ExtractAndParse(ensured.pdf_path, ensured.disk))

\* the try block after ensure_pdf, and the handler
AfterEnsure(file_path, md, unlink_ok, ensured) ==
  IF ~ensured.ok
    THEN [disk |-> ensured.disk, months_data |-> md, errors |-> <<"ConversionError">>]
    ELSE AfterParse(file_path, md, unlink_ok, ensured,
                    ExtractAndParse(ensured.pdf_path, ensured.disk))

\* what happens to one file in the loop of _process_files_worker (lines
\* 215-265): [disk, months_data, errors]
FileStep(file_path, d, md, conv_ok, unlink_ok) ==
  AfterEnsure(file_path, md, unlink_ok, ensure_pdf(file_path, d, conv_ok))

\* the state after one pass of the loop over file_paths
FileDone(step) ==
  /\ disk' = step.disk
  /\ months_data' = step.months_data
  /\ exceptions' = exceptions \o
       [k \in 1..Len(step.errors) |->
          [file |-> file_paths[fidx], error |-> step.errors[k]]]
  /\ outcomes' = Append(outcomes,
       [records |-> CountRows(step.months_data) - CountRows(months_data),
        errors |-> Len(step.errors)])

\* one pass of the loop over file_paths
ProcessFile ==
  /\ wpc = "files"
  /\ fidx <= Len(file_paths)
  /\ \E conv_ok \in BOOLEAN, unlink_ok \in BOOLEAN :
       FileDone(FileStep(file_paths[fidx], disk, months_data, conv_ok, unlink_ok))
  /\ fidx' = fidx + 1
  /\ UNCHANGED <<processing, current_month_folder, csv_mirror_enabled,
                 dentist_name_override, wpc, file_paths, widx, dialog,
                 detected_name, result_queue, finish_ui, xlsx, csv, report,
                 submitted, write_error, btn_reset, parsevars>>

\* after the loop, with data: _prompt_dentist_name posts show_dialog and waits
PromptDentistName ==
  /\ wpc = "files"
  /\ fidx > Len(file_paths)
  /\ months_data # <<>>
  /\ detected_name' = months_data[1].rows[1].dentist_name
  /\ dialog' = "scheduled"
  /\ result_queue' = None
  /\ wpc' = "prompt"
  /\ UNCHANGED <<processing, exceptions, current_month_folder, csv_mirror_enabled,
                 dentist_name_override, file_paths, fidx, months_data, widx,
                 finish_ui, disk, xlsx, csv, report, submitted, outcomes, write_error,
                 btn_reset, parsevars>>

\* after the loop, without data: nothing to confirm
SkipPrompt ==
  /\ wpc = "files"
  /\ fidx > Len(file_paths)
  /\ months_data = <<>>
  /\ wpc' = "write"
  /\ UNCHANGED <<processing, exceptions, current_month_folder, csv_mirror_enabled,
                 dentist_name_override, file_paths, fidx, months_data, widx, dialog,
                 detected_name, result_queue, finish_ui, disk, xlsx, csv, report,
                 submitted, outcomes, write_error, btn_reset, parsevars>>

\* show_dialog in the main thread: the override of the settings, or the dialog
ShowDialog ==
  /\ dialog = "scheduled"
  /\ IF Strip(dentist_name_override) # <<>>
       THEN /\ result_queue' = Some(Strip(dentist_name_override))
            /\ dialog' = "none"
       ELSE /\ dialog' = "open"
            /\ UNCHANGED result_queue
  /\ UNCHANGED <<processing, exceptions, current_month_folder, csv_mirror_enabled,
                 dentist_name_override, wpc, file_paths, fidx, months_data, widx,
                 detected_name, finish_ui, disk, xlsx, csv, report, submitted,
                 outcomes, write_error, btn_reset, parsevars>>

\* on_confirm: the content of the entry field, which the user may have edited
\* or emptied
OnConfirm ==
  /\ dialog = "open"
  /\ \E typed \in {detected_name, EditedName, <<>>} :
       result_queue' = Some(Strip(typed))
  /\ dialog' = "none"
  /\ UNCHANGED <<processing, exceptions, current_month_folder, csv_mirror_enabled,
                 dentist_name_override, wpc, file_paths, fidx, months_data, widx,
                 detected_name, finish_ui, disk, xlsx, csv, report, submitted,
                 outcomes, write_error, btn_reset, parsevars>>

\* on_cancel ("Use As-Is")
OnCancel ==
  /\ dialog = "open"
  /\ result_queue' = Some(detected_name)
  /\ dialog' = "none"
  /\ UNCHANGED <<processing, exceptions, current_month_folder, csv_mirror_enabled,
                 dentist_name_override, wpc, file_paths, fidx, months_data, widx,
                 detected_name, finish_ui, disk, xlsx, csv, report, submitted,
                 outcomes, write_error, btn_reset, parsevars>>

\* result_queue.get() returns: the confirmed name goes into every row
ApplyConfirmedName ==
  /\ wpc = "prompt"
  /\ result_queue # None
  /\ LET confirmed_name == result_queue[1]
     IN  months_data' =
           IF confirmed_name # <<>>
             THEN [k \in 1..Len(months_data) |->
                     [months_data[k] EXCEPT !.rows =
                        [j \in 1..Len(@) |-> [@[j] EXCEPT !.dentist_name = confirmed_name]]]]
             ELSE months_data
  /\ result_queue' = None
  /\ wpc' = "write"
  /\ UNCHANGED <<processing, exceptions, current_month_folder, csv_mirror_enabled,
                 dentist_name_override, file_paths, fidx, widx, dialog,
                 detected_name, finish_ui, disk, xlsx, csv, report, submitted,
                 outcomes, write_error, btn_reset, parsevars>>

\* "all_rows = existing_rows + rows" of the write loop (lines 286-290): the
\* rows loaded from the XLSX file of the month, then the rows of the batch
AllRows(file, rows) == load_existing_rows(file).rows \o rows

\* the import with the slip of writing a new workbook with the rows of the
\* batch alone
ImportRowsAnew(file, rows) == write_xlsx(None, rows)

\* the XLSX worksheet after one import of rows into the month (lines 286-293)
ImportRows(file, rows) == write_xlsx(file, AllRows(file, rows))

\* one pass of the loop "for month_folder, rows in months_data.items()"; a
\* ValueError of load_existing_rows ends the worker in the outer handler
WriteMonth ==
  /\ wpc = "write"
  /\ widx <= Len(months_data)
  /\ LET month_folder == months_data[widx].month
         rows == months_data[widx].rows
         all_rows == AllRows(xlsx[month_folder], rows)
     IN  IF load_existing_rows(xlsx[month_folder]).ok
           THEN /\ xlsx' = [xlsx EXCEPT ![month_folder] =
                              Some(ImportRows(xlsx[month_folder], rows))]
                /\ csv' = IF csv_mirror_enabled
                            THEN [csv EXCEPT ![month_folder] = Some(write_csv(all_rows))]
                            ELSE csv
                /\ report' = [report EXCEPT ![month_folder] =
                                Some(build_report_pdf(month_folder, all_rows))]
                /\ current_month_folder' = Some(month_folder)
                /\ widx' = widx + 1
                /\ UNCHANGED <<wpc, finish_ui, write_error>>
           ELSE /\ finish_ui' = Some(FALSE)
                /\ wpc' = "none"
                /\ write_error' = Some("ValueError")
                /\ UNCHANGED <<xlsx, csv, report, current_month_folder, widx>>
  /\ UNCHANGED <<processing, exceptions, csv_mirror_enabled, dentist_name_override,
                 file_paths, fidx, months_data, dialog, detected_name,
                 result_queue, disk, submitted, outcomes, btn_reset, parsevars>>

\* _finish_processing(success=True): the worker posts the UI update and ends
FinishProcessing ==
  /\ wpc = "write"
  /\ widx > Len(months_data)
  /\ finish_ui' = Some(TRUE)
  /\ wpc' = "none"
  /\ UNCHANGED <<processing, exceptions, current_month_folder, csv_mirror_enabled,
                 dentist_name_override, file_paths, fidx, months_data, widx, dialog,
                 detected_name, result_queue, disk, xlsx, csv, report, submitted,
                 outcomes, write_error, btn_reset, parsevars>>

\* _finish_processing_ui(success, error) in the main thread
FinishProcessingUI ==
  /\ finish_ui # None
  /\ processing' = FALSE
  /\ finish_ui' = None
  /\ btn_reset' = (finish_ui[1] \/ btn_reset)
  /\ UNCHANGED <<exceptions, current_month_folder, csv_mirror_enabled,
                 dentist_name_override, wpc, file_paths, fidx, months_data, widx,
                 dialog, detected_name, result_queue, disk, xlsx, csv, report,
                 submitted, outcomes, write_error, parsevars>>

Next ==
  \/ ProcessFiles
  \/ ProcessFile
  \/ PromptDentistName
  \/ SkipPrompt
  \/ ShowDialog
  \/ OnConfirm
  \/ OnCancel
  \/ ApplyConfirmedName
  \/ WriteMonth
  \/ FinishProcessing
  \/ FinishProcessingUI

Spec == Init /\ [][Next]_vars

(***************************************************************************)
(* What else happens to the application: an output file cannot be read or  *)
(* written, the user changes the CSV setting, the user resets the current  *)
(* month.                                                                  *)
(***************************************************************************)
\* the statements of one pass of the write loop that can raise: lines 287,
\* 293, 298 and 303
WriteSteps == <<"load", "xlsx", "csv", "report">>

\* the files of the month after a pass of the write loop in which the
\* statement raised_at raises: the statements before it have written their
\* file, the others have not run
FilesWhenRaised(month_folder, rows, raised_at, mirror) ==
  [xlsx |-> IF raised_at \in {"csv", "report"}
              THEN Some(ImportRows(xlsx[month_folder], rows))
              ELSE xlsx[month_folder],
   csv |-> IF raised_at = "report" /\ mirror
             THEN Some(write_csv(AllRows(xlsx[month_folder], rows)))
             ELSE csv[month_folder],
   report |-> report[month_folder]]

\* the handler with the slip of reporting the batch as done
HandleWriteErrorAsDone(raised_at) ==
  /\ write_error' = Some(raised_at)
  /\ finish_ui' = Some(TRUE)
  /\ wpc' = "none"

\* the handler of line 312: the worker posts _finish_processing(success=False)
\* and ends
HandleWriteError(raised_at) ==
  /\ write_error' = Some(raised_at)
  /\ finish_ui' = Some(FALSE)
  /\ wpc' = "none"

\* one pass of the write loop in which load_existing_rows, write_xlsx,
\* write_csv or build_report_pdf raises an OSError (the file cannot be read
\* or written); write_csv runs only if the CSV mirror is enabled
WriteMonthFails ==
  /\ wpc = "write"
  /\ widx <= Len(months_data)
  /\ load_existing_rows(xlsx[months_data[widx].month]).ok
  /\ \E k \in 1..Len(WriteSteps) :
       /\ WriteSteps[k] = "csv" => csv_mirror_enabled
       /\ xlsx' = [xlsx EXCEPT ![months_data[widx].month] =
                     FilesWhenRaised(months_data[widx].month, months_data[widx].rows,
                                     WriteSteps[k], csv_mirror_enabled).xlsx]
       /\ csv' = [csv EXCEPT ![months_data[widx].month] =
                    FilesWhenRaised(months_data[widx].month, months_data[widx].rows,
                                    WriteSteps[k], csv_mirror_enabled).csv]
       /\ HandleWriteError(WriteSteps[k])
  /\ UNCHANGED <<processing, exceptions, current_month_folder, csv_mirror_enabled,
                 dentist_name_override, file_paths, fidx, months_data, widx, dialog,
                 detected_name, result_queue, disk, report, submitted, outcomes,
                 btn_reset, parsevars>>

\* the check box "Enable CSV mirror" of the settings window
ToggleCsvMirror ==
  /\ csv_mirror_enabled' = ~csv_mirror_enabled
  /\ UNCHANGED <<processing, exceptions, current_month_folder,
                 dentist_name_override, wpc, file_paths, fidx, months_data, widx,
                 dialog, detected_name, result_queue, finish_ui, disk, xlsx, csv,
                 report, submitted, outcomes, write_error, btn_reset, parsevars>>

\* the loop "for file_path in [xlsx_path, csv_path, pdf_path]" of
\* _reset_current_month that ends before file number stop: the file after the
\* deletion, None if it does not exist
Unlinked(file, number, stop) == IF number < stop THEN None ELSE file

\* _reset_current_month with the answer "yes": the files of the current month
\* that exist are deleted in the order XLSX, CSV, report; stop = 4 when no
\* unlink raises, else the number of the file whose unlink raises.  Without
\* an exception and with a file deleted, current_month_folder becomes None.
DeleteMonthFiles(month_folder, stop) ==
  /\ stop = 1 => xlsx[month_folder] # None
  /\ stop = 2 => csv[month_folder] # None
  /\ stop = 3 => report[month_folder] # None
  /\ xlsx' = [xlsx EXCEPT ![month_folder] = Unlinked(@, 1, stop)]
  /\ csv' = [csv EXCEPT ![month_folder] = Unlinked(@, 2, stop)]
  /\ report' = [report EXCEPT ![month_folder] = Unlinked(@, 3, stop)]
  /\ current_month_folder' =
       IF stop = 4 /\ (xlsx[month_folder] # None \/ csv[month_folder] # None
                         \/ report[month_folder] # None)
         THEN None
         ELSE current_month_folder
  /\ btn_reset' =
       IF stop = 4 /\ (xlsx[month_folder] # None \/ csv[month_folder] # None
                         \/ report[month_folder] # None)
         THEN FALSE
         ELSE btn_reset

\* _reset_current_month(), the command of the Reset button, which is enabled
\* by _finish_processing_ui(success=True) and disabled by a reset that deleted
\* a file: nothing without a current month, nothing when the user answers
\* "no"; there is no check of self.processing, and _process_files leaves the
\* button as it is
ResetCurrentMonth ==
  /\ btn_reset
  /\ current_month_folder # None
  /\ \E confirm \in BOOLEAN :
       IF confirm
         THEN \E stop \in 1..4 : DeleteMonthFiles(current_month_folder[1], stop)
         ELSE UNCHANGED <<xlsx, csv, report, current_month_folder, btn_reset>>
  /\ UNCHANGED <<processing, exceptions, csv_mirror_enabled, dentist_name_override,
                 wpc, file_paths, fidx, months_data, widx, dialog, detected_name,
                 result_queue, finish_ui, disk, submitted, outcomes, write_error,
                 parsevars>>

\* the application when the output files may fail to be read or written
NextFail ==
  \/ Next
  \/ WriteMonthFails

SpecFail == Init /\ [][NextFail]_vars

\* the application when the user may change the CSV setting
NextMirror ==
  \/ Next
  \/ ToggleCsvMirror

SpecMirror == Init /\ [][NextMirror]_vars

\* the application when the user may reset the current month
NextReset ==
  \/ Next
  \/ ResetCurrentMonth

SpecReset == Init /\ [][NextReset]_vars

\* the user closes the window of the dialog: the Toplevel is destroyed,
\* wait_window returns and show_dialog ends with nothing put in the queue
CloseDialog ==
  /\ dialog = "open"
  /\ dialog' = "none"
  /\ UNCHANGED <<processing, exceptions, current_month_folder, csv_mirror_enabled,
                 dentist_name_override, wpc, file_paths, fidx, months_data, widx,
                 detected_name, result_queue, finish_ui, disk, xlsx, csv, report,
                 submitted, outcomes, write_error, btn_reset, parsevars>>

\* the ways the user dismisses the dialog
DismissDialog == OnConfirm \/ OnCancel \/ CloseDialog

NextDialog ==
  \/ Next
  \/ CloseDialog

\* the worker thread and the main loop run whenever they can, and the user
\* dismisses an open dialog; when the user starts a batch is up to the user
Fairness ==
  /\ WF_vars(ProcessFile)
  /\ WF_vars(PromptDentistName)
  /\ WF_vars(SkipPrompt)
  /\ WF_vars(ShowDialog)
  /\ WF_vars(DismissDialog)
  /\ WF_vars(ApplyConfirmedName)
  /\ WF_vars(WriteMonth)
  /\ WF_vars(FinishProcessing)
  /\ WF_vars(FinishProcessingUI)

SpecDialog == Init /\ [][NextDialog]_vars /\ Fairness

\* the disk on which the user has put a PDF export of b.pages next to it
SiblingDisk == (PdfPath("b") :> 2) @@ InitialDisk

\* AccudentApp.__init__ with empty month folders, on that disk
InitSibling ==
  /\ processing = FALSE
  /\ exceptions = <<>>
  /\ current_month_folder = None
  /\ csv_mirror_enabled = TRUE
  /\ dentist_name_override = <<>>
  /\ wpc = "none"
  /\ file_paths = <<>>
  /\ fidx = 1
  /\ months_data = <<>>
  /\ widx = 1
  /\ dialog = "none"
  /\ detected_name = <<>>
  /\ result_queue = None
  /\ finish_ui = None
  /\ disk = SiblingDisk
  /\ xlsx = [m \in Months |-> None]
  /\ csv = [m \in Months |-> None]
  /\ report = [m \in Months |-> None]
  /\ submitted = 0
  /\ outcomes = <<>>
  /\ write_error = None
  /\ btn_reset = FALSE
  /\ ParseIdle
  /\ RowIdle
  /\ MergeIdle
  /\ PartsIdle
  /\ DatesIdle

SpecSibling == InitSibling /\ [][Next]_vars

(***************************************************************************)
(* parse_invoice on any invoice text.                                      *)
(***************************************************************************)
InitParse ==
  /\ AppInit
  /\ parse_text \in InvoiceTexts
  /\ inv_out = None
  /\ RowIdle
  /\ MergeIdle
  /\ PartsIdle
  /\ DatesIdle

\* the call parse_invoice(text)
ParseInvoice ==
  /\ inv_out = None
  /\ inv_out' = Some(parse_invoice(parse_text))
  /\ UNCHANGED <<appvars, parse_text, row_line, row_out, ledger_in, rows_in, ledger_out,
                 patient_out, dentist_out, table_out, label_in, dates_out>>

NextParse == ParseInvoice

SpecParse == InitParse /\ [][NextParse]_vars

(***************************************************************************)
(* _parse_table_row on any table line.                                     *)
(***************************************************************************)
InitRow ==
  /\ AppInit
  /\ ParseIdle
  /\ row_line \in RowLines
  /\ row_out = None
  /\ MergeIdle
  /\ PartsIdle
  /\ DatesIdle

\* the call _parse_table_row(line)
ParseTableRow ==
  /\ row_out = None
  /\ row_out' = Some(_parse_table_row(row_line))
  /\ UNCHANGED <<appvars, parse_text, inv_out, row_line, ledger_in, rows_in, ledger_out,
                 patient_out, dentist_out, table_out, label_in, dates_out>>

NextRow == ParseTableRow

SpecRow == InitRow /\ [][NextRow]_vars

(***************************************************************************)
(* write_xlsx on any worksheet and any rows.                               *)
(***************************************************************************)
InitMerge ==
  /\ AppInit
  /\ ParseIdle
  /\ RowIdle
  /\ ledger_in \in {None} \cup {Some(ws) : ws \in Worksheets}
  /\ rows_in \in SeqsUpTo(RowDicts, MaxNew)
  /\ ledger_out = None
  /\ PartsIdle
  /\ DatesIdle

\* the call write_xlsx(month_folder, rows)
WriteXlsx ==
  /\ ledger_out = None
  /\ ledger_out' = Some(write_xlsx(ledger_in, rows_in))
  /\ UNCHANGED <<appvars, parse_text, inv_out, row_line, row_out, ledger_in, rows_in,
                 patient_out, dentist_out, table_out, label_in, dates_out>>

NextMerge == WriteXlsx

SpecMerge == InitMerge /\ [][NextMerge]_vars

(***************************************************************************)
(* _parse_patient_and_date on any footer.                                  *)
(***************************************************************************)
InitPatient ==
  /\ AppInit
  /\ parse_text \in PatientTexts
  /\ inv_out = None
  /\ RowIdle
  /\ MergeIdle
  /\ PartsIdle
  /\ DatesIdle

\* the call _parse_patient_and_date(text)
ParsePatientAndDate ==
  /\ patient_out = None
  /\ patient_out' = Some(_parse_patient_and_date(parse_text))
  /\ UNCHANGED <<appvars, parse_text, inv_out, row_line, row_out, ledger_in, rows_in,
                 ledger_out, dentist_out, table_out, label_in, dates_out>>

NextPatient == ParsePatientAndDate

SpecPatient == InitPatient /\ [][NextPatient]_vars

(***************************************************************************)
(* _parse_dentist_name on any header.                                      *)
(***************************************************************************)
InitDentist ==
  /\ AppInit
  /\ parse_text \in DentistTexts
  /\ inv_out = None
  /\ RowIdle
  /\ MergeIdle
  /\ PartsIdle
  /\ DatesIdle

\* the call _parse_dentist_name(text)
ParseDentistName ==
  /\ dentist_out = None
  /\ dentist_out' = Some(_parse_dentist_name(parse_text))
  /\ UNCHANGED <<appvars, parse_text, inv_out, row_line, row_out, ledger_in, rows_in,
                 ledger_out, patient_out, table_out, label_in, dates_out>>

NextDentist == ParseDentistName

SpecDentist == InitDentist /\ [][NextDentist]_vars

(***************************************************************************)
(* _parse_table on any table.                                              *)
(***************************************************************************)
InitTable ==
  /\ AppInit
  /\ parse_text \in TableTexts
  /\ inv_out = None
  /\ RowIdle
  /\ MergeIdle
  /\ PartsIdle
  /\ DatesIdle

\* the call _parse_table(text)
ParseTable ==
  /\ table_out = None
  /\ table_out' = Some(_parse_table(parse_text))
  /\ UNCHANGED <<appvars, parse_text, inv_out, row_line, row_out, ledger_in, rows_in,
                 ledger_out, patient_out, dentist_out, label_in, dates_out>>

NextTable == ParseTable

SpecTable == InitTable /\ [][NextTable]_vars

(***************************************************************************)
(* build_report_pdf on any month label.                                    *)
(***************************************************************************)
InitDates ==
  /\ AppInit
  /\ ParseIdle
  /\ RowIdle
  /\ MergeIdle
  /\ PartsIdle
  /\ label_in \in MonthLabels
  /\ dates_out = None

\* the call build_report_pdf(month_folder, []) on a folder of that name
BuildReport ==
  /\ dates_out = None
  /\ dates_out' = Some(build_report_pdf(label_in, <<>>))
  /\ UNCHANGED <<appvars, parse_text, inv_out, row_line, row_out, ledger_in, rows_in,
                 ledger_out, patient_out, dentist_out, table_out, label_in>>

NextDates == BuildReport

SpecDates == InitDates /\ [][NextDates]_vars

(***************************************************************************)
(* The ledger merge: C1, C2, C3.                                           *)
(***************************************************************************)
\* the rows of a worksheet as a set
RowSet(ws) == {ws[i] : i \in 1..Len(ws)}

\* the worker is about to import the rows of a month into its ledger
PendingImport == wpc = "write" /\ widx <= Len(months_data)

\* the ledger after the pending import
ImportedOnce ==
  ImportRows(xlsx[months_data[widx].month], months_data[widx].rows)

\* the ledger after the pending import and a second import of the same rows
ImportedTwice == ImportRows(Some(ImportedOnce), months_data[widx].rows)

\* C1: importing the batch of a month into its ledger twice in sequence
\* (load_existing_rows, then write_xlsx on existing + new, each time) leaves
\* the same ledger rows as importing it once.
C1_MergeIdempotent ==
  PendingImport =>
    /\ Len(ImportedTwice) = Len(ImportedOnce)
    /\ RowSet(ImportedTwice) = RowSet(ImportedOnce)

\* the worksheet given to write_xlsx: no rows when there is no file
LedgerIn == IF ledger_in = None THEN <<>> ELSE ledger_in[1]

\* every row of the worksheet is as write_xlsx writes it: a date value in
\* the date cell
ProgramWritten(ws) == \A i \in 1..Len(ws) : IsDatetime(ws[i].date)

\* the key (date_due, patient_name, total_cost) of a ledger row
LedgerKey(c) == <<c.date, c.name, c.total.float>>

\* the key (date_due, patient_name, total_cost) of a new record
RecordKey(r) == <<r.date_due, r.patient_name, r.total_cost>>

\* the new records whose key no row of the ledger has
FreshRecords ==
  {i \in 1..Len(rows_in) :
     \A k \in 1..Len(LedgerIn) : LedgerKey(LedgerIn[k]) # RecordKey(rows_in[i])}

\* C2: write_xlsx overwrites the ledger row that has the key (date_due,
\* patient_name, total_cost) of a new record, whatever the total (zero and
\* negative included), leaving the number of rows as it was, and appends
\* exactly one row for a record whose key no ledger row has.
C2_UpsertByKey ==
  (ledger_out # None /\ ProgramWritten(LedgerIn)) =>
    /\ Len(ledger_out[1]) = Len(LedgerIn) + Cardinality(FreshRecords)
    /\ \A i \in 1..Len(rows_in) :
         (\A j \in (i + 1)..Len(rows_in) : RecordKey(rows_in[j]) # RecordKey(rows_in[i]))
           => RowCells(rows_in[i]) \in RowSet(ledger_out[1])

\* C3: after write_xlsx the data rows of the ledger are in ascending order of
\* the due date, and a row whose date cell is no date comes after all dated
\* rows; the dates 2024-03-15, 2024-03-01, 2024-03-10 merged into an empty
\* ledger come out as 03-01, 03-10, 03-15.
C3_SortedByDate ==
  ledger_out # None =>
    /\ \A i \in 1..Len(ledger_out[1]) : \A j \in (i + 1)..Len(ledger_out[1]) :
         /\ (IsDatetime(ledger_out[1][i].date) /\ IsDatetime(ledger_out[1][j].date))
              => ~DateLess(ledger_out[1][j].date, ledger_out[1][i].date)
         /\ (HasDate(ledger_out[1][i]) /\ ~IsDatetime(ledger_out[1][i].date))
              => ~IsDatetime(ledger_out[1][j].date)
    /\ (ledger_in = None
          /\ rows_in = <<ParsedDoc[1].rec, ParsedDoc[2].rec, ParsedDoc[3].rec>>)
         => [i \in 1..Len(ledger_out[1]) |-> ledger_out[1][i].date.day] = <<1, 10, 15>>

(***************************************************************************)
(* The parser: C4 to C8.                                                   *)
(***************************************************************************)
\* parse_invoice has returned a record
Parsed == inv_out # None /\ inv_out[1].ok

\* C4: every record parse_invoice returns has total_cost equal to
\* (unit_price or 0) + alloys_extras_cost, to the cent.
C4_TotalInvariant ==
  Parsed =>
    inv_out[1].rec.total_cost =
      (IF inv_out[1].rec.unit_price = None THEN 0 ELSE inv_out[1].rec.unit_price[1])
        + inv_out[1].rec.alloys_extras_cost

\* a record whose first row costs twice its unit price, with a second row:
\* "Alloy 2 $15.00 $30.00" then "Crown 1 $200.00 $200.00"
C4_Witness ==
  /\ Parsed
  /\ inv_out[1].rec.unit_price = Some(1500)
  /\ inv_out[1].rec.alloys_extras_cost = 20000
  /\ inv_out[1].rec.total_cost = 21500

\* the position of the last "(" of the line, 0 if there is none
LastParen(s) ==
  IF \E p \in 1..Len(s) : s[p] = "("
    THEN CHOOSE p \in 1..Len(s) : s[p] = "(" /\ \A q \in (p + 1)..Len(s) : s[q] # "("
    ELSE 0

\* what the last pair of parentheses of the line encloses, without "$",
\* spaces and commas
RECURSIVE AmountDigits(_)
AmountDigits(s) ==
  IF s = <<>> THEN <<>>
  ELSE IF Head(s) \in {"$", " ", ","} THEN AmountDigits(Tail(s))
  ELSE <<Head(s)>> \o AmountDigits(Tail(s))

ParenAmount(s) == AmountDigits(SubSeq(s, LastParen(s) + 1, Len(s) - 1))

\* the cost token, the last of the line, is an amount in parentheses
CostInParens(s) ==
  /\ Len(s) > 0
  /\ s[Len(s)] = ")"
  /\ LastParen(s) # 0
  /\ ParenAmount(s) # <<>>
  /\ \A k \in 1..Len(ParenAmount(s)) : IsDigit(ParenAmount(s)[k]) \/ ParenAmount(s)[k] = "."

\* C5: a table row whose cost is enclosed in parentheses parses to the
\* negated amount: "Rebate 1 110.00 (110.00)" to a cost of -110.00, and
\* likewise with "($ 110.00)".
C5_ParenthesesNegate ==
  (row_out # None /\ CostInParens(row_line)) =>
    /\ row_out[1] # None
    /\ row_out[1][1].cost = 0 - Decimal(ParenAmount(row_line))

\* the texts of the end-to-end scenario: "INVOICEFOR:DR.JOHNSMITH", the line
\* with DESCRIPTION, the rows "Crown 1 $200.00 $200.00" and
\* "Rebate 1 $20.00 ($20.00)", and "Patient: Jane Doe, Due 3/15/2024"
ScenarioTexts ==
  {InvoiceText(HeadUnspaced, thead, <<RowCrown, RowRebate>>, stop, FootJane) :
     thead \in {TableHeader, NoTableHeader},
     stop \in {<<TotalLine>>, <<BlankLine>>, <<>>}}

\* C6: parse_invoice on the text of the end-to-end scenario returns a record
\* with patient "Jane Doe", due 2024-03-15, unit price 200.00, alloys and
\* extras -20.00 and total 180.00.
C6_EndToEnd ==
  (inv_out # None /\ parse_text \in ScenarioTexts) =>
    /\ inv_out[1].ok
    /\ inv_out[1].rec.patient_name = <<"J", "a", "n", "e", " ", "D", "o", "e">>
    /\ inv_out[1].rec.date_due = [year |-> 2024, month |-> 3, day |-> 15]
    /\ inv_out[1].rec.unit_price = Some(20000)
    /\ inv_out[1].rec.alloys_extras_cost = 0 - 2000
    /\ inv_out[1].rec.total_cost = 18000

\* the lines of the text that are table headers
HeaderLines(lines) == {i \in 1..Len(lines) : IsHeaderLine(lines[i])}

\* line i ends the table: it is blank or has the word total or subtotal
EndsTable(lines, i) == Strip(lines[i]) = <<>> \/ HasStopWord(Strip(lines[i]))

\* line i has three or more numeric tokens
ValidRow(lines, i) == Len(MoneyFindAll(Strip(lines[i]), 1)) >= 3

\* the lines have no table header, or no valid row between the first header
\* and the first line after it that ends the table
NoRowsIn(lines) ==
  \/ HeaderLines(lines) = {}
  \/ \A i \in (MinOf(HeaderLines(lines)) + 1)..Len(lines) :
       ValidRow(lines, i) =>
         \E k \in (MinOf(HeaderLines(lines)) + 1)..(i - 1) : EndsTable(lines, k)

EmptyTable == NoRowsIn(SplitLines(parse_text))

\* the text starts with "INVOICE FOR: ..."
HasInvoiceFor == StartsAt(parse_text, 1, HeadSpaced)

\* the text has the line "Patient: Jane Doe, Due 3/15/2024"
HasPatientDue == Contains(parse_text, FootJane)

LineItems == _parse_table(parse_text)

\* the sum of the costs of the items from index k on
RECURSIVE CostFrom(_, _)
CostFrom(items, k) ==
  IF k > Len(items) THEN 0 ELSE items[k].cost + CostFrom(items, k + 1)

\* the items with another cost in the first and other unit prices in the rest
Perturbed(items) ==
  [k \in 1..Len(items) |->
     IF k = 1 THEN [items[k] EXCEPT !.cost = @ + 100]
     ELSE [items[k] EXCEPT !.unit_price = @ + 100]]

C9_OneOutcomePerFile ==
  /\ \A k \in 1..Len(outcomes) :
       \/ outcomes[k].records = 1 /\ outcomes[k].errors = 0
       \/ outcomes[k].records = 0 /\ outcomes[k].errors = 1
  /\ wpc \in {"prompt", "write"} => Len(outcomes) = Len(file_paths)

\* the sum of the total cells of the rows of a worksheet
RECURSIVE SumTotals(_)
SumTotals(ws) ==
  IF ws = <<>> THEN 0 ELSE DecimalOrZero(Head(ws).total) + SumTotals(Tail(ws))

\* C10: after an import into a month the report of the month has one data
\* row for each row of the ledger of the month, in ascending order of the
\* date, and its TOTAL is the sum of total_cost over the ledger rows, also
\* when the import processes an invoice that is in the ledger already.
\* Stated for the ledgers in which no total is zero.
C10_ReportMatchesLedger ==
  \A m \in Months :
    (report[m] # None /\ \A i \in 1..Len(xlsx[m][1]) : Truthy(xlsx[m][1][i].total)) =>
      /\ Len(report[m][1].table) = Len(xlsx[m][1])
      /\ {<<report[m][1].table[i].date, report[m][1].table[i].name, report[m][1].table[i].total>> :
            i \in 1..Len(report[m][1].table)}
           = {LedgerKey(xlsx[m][1][i]) : i \in 1..Len(xlsx[m][1])}
      /\ \A i \in 1..Len(report[m][1].table) : \A j \in (i + 1)..Len(report[m][1].table) :
           ~DateLess(report[m][1].table[j].date, report[m][1].table[i].date)
      /\ report[m][1].total = SumTotals(xlsx[m][1])

(***************************************************************************)
(* The CSV mirror: C11.                                                    *)
(***************************************************************************)
\* the data lines of a CSV file and the rows of a worksheet hold the same
\* records: as many, and line by line the same date, name and total
CsvMirrors(lines, ws) ==
  /\ Len(lines) = Len(ws)
  /\ \A i \in 1..Len(ws) :
       <<lines[i].date, lines[i].name, lines[i].total>> = LedgerKey(ws[i])

\* no row of the worksheet has a total of zero
NoZeroTotal(ws) == \A i \in 1..Len(ws) : Truthy(ws[i].total)

\* C11: every import into a month made with the CSV mirror enabled leaves a
\* CSV file with the records of the ledger of the month after the merge: the
\* same number of rows and row by row the same date, patient name and total,
\* also when the import processes an invoice that is in the ledger already.
\* Stated for the ledgers in which no total is zero.
C11_CsvMirrorsLedger ==
  [][\A m \in Months :
       (/\ wpc = "write"
        /\ widx' = widx + 1
        /\ months_data[widx].month = m
        /\ csv_mirror_enabled
        /\ NoZeroTotal(xlsx'[m][1]))
         => CsvMirrors(csv'[m][1], xlsx'[m][1])]_vars

(***************************************************************************)
(* The worker thread: C12.                                                 *)
(***************************************************************************)
\* a worker thread is running
WorkerRuns == wpc # "none"

\* C12: at most one worker thread runs at any time: a worker is started only
\* when no worker runs and no batch is in progress, and while a worker runs
\* the batch is in progress, so that a request to process files made then
\* starts no second worker.
C12_SingleWorker ==
  [][/\ WorkerRuns => processing
     /\ WorkerRuns' => processing'
     /\ submitted' # submitted => (~WorkerRuns /\ ~processing /\ processing')]_vars

\* the worker of a second batch has written a month: the first worker ended
\* and the user interface was updated before the second batch was accepted
C12_Witness ==
  /\ submitted > Len(file_paths)
  /\ processing
  /\ wpc = "write"
  /\ widx > 1

(***************************************************************************)
(* The month buckets: C13.                                                 *)
(***************************************************************************)
\* the date lies in the calendar month of the label YYYY-MM
InMonth(d, label) ==
  /\ Len(label) = 7
  /\ label[5] = "-"
  /\ IntOfDigits(SubSeq(label, 1, 4)) = d.year
  /\ IntOfDigits(SubSeq(label, 6, 7)) = d.month

\* the ledger of the month has a row with the key of the record
InLedger(file, r) ==
  /\ file # None
  /\ \E i \in 1..Len(file[1]) : LedgerKey(file[1][i]) = RecordKey(r)

\* C13: the worker merges every parsed invoice into the ledger of the month
\* YYYY-MM of its date_due and into no other, and at all times every row of
\* the ledger of a month has a date_due in that calendar month.
C13_BucketMembership ==
  [][/\ \A m \in Months : xlsx'[m] # None =>
          \A i \in 1..Len(xlsx'[m][1]) : InMonth(xlsx'[m][1][i].date, m)
     /\ (wpc = "write" /\ widx' = widx + 1) =>
          \A j \in 1..Len(months_data[widx].rows) :
            /\ InMonth(months_data[widx].rows[j].date_due, months_data[widx].month)
            /\ InLedger(xlsx'[months_data[widx].month], months_data[widx].rows[j])
            /\ \A m \in Months \ {months_data[widx].month} : xlsx'[m] = xlsx[m]]_vars

\* a batch with invoices due in March and in April has been written: both
\* ledgers have rows
C13_Witness ==
  /\ wpc = "write"
  /\ Len(months_data) = 2
  /\ widx = 3
  /\ \A m \in Months : xlsx[m] # None /\ xlsx[m][1] # <<>>

(***************************************************************************)
(* Failures of the output files: C14.                                      *)
(***************************************************************************)
\* the ledger, CSV file and report of the month
FilesOf(x, c, r, m) == <<x[m], c[m], r[m]>>

\* C14: when reading or writing the ledger, the CSV file or the report of a
\* month raises in the write loop, the worker ends with success = False and
\* writes no later month, and the months written before in the batch keep
\* what was merged into them: the step of the failure changes the files of
\* no other month, the ledgers of the earlier months still hold the records
\* of the batch, and no worker runs while the error stands.
C14_WriteFailureIsFatal ==
  [][/\ (write_error = None /\ write_error' # None) =>
          /\ finish_ui' = Some(FALSE)
          /\ \A k \in 1..Len(months_data) : k # widx =>
               FilesOf(xlsx', csv', report', months_data[k].month)
                 = FilesOf(xlsx, csv, report, months_data[k].month)
          /\ \A k \in 1..(widx - 1) : \A j \in 1..Len(months_data[k].rows) :
               InLedger(xlsx'[months_data[k].month], months_data[k].rows[j])
     /\ write_error' # None =>
          /\ ~WorkerRuns'
          /\ finish_ui' # Some(TRUE)
          /\ widx' <= Len(months_data')]_vars

\* a batch of two months: the first month is written and the second fails at
\* the load, so that it has no files
C14_Witness ==
  /\ write_error = Some("load")
  /\ Len(months_data) = 2
  /\ widx = 2
  /\ xlsx[months_data[1].month] # None
  /\ report[months_data[1].month] # None
  /\ xlsx[months_data[2].month] = None
  /\ finish_ui = Some(FALSE)

(***************************************************************************)
(* The life of a month's files: C19.                                       *)
(***************************************************************************)
\* a file that exists before the step does not exist after it
Deleted(before, after) == before # None /\ after = None

\* every record of the worksheet ws is in the worksheet after
KeepsRecords(ws, after) ==
  /\ Len(after) >= Len(ws)
  /\ \A i \in 1..Len(ws) : \E j \in 1..Len(after) : LedgerKey(after[j]) = LedgerKey(ws[i])

\* C19: the ledger, the CSV file and the report of a month are deleted only
\* by a reset of that month, the current one, which is no step of the worker;
\* every other step that leaves a ledger keeps each of its records, so the
\* number of its rows never decreases through imports.
C19_OnlyResetDeletes ==
  [][\A m \in Months :
       /\ (Deleted(xlsx[m], xlsx'[m]) \/ Deleted(csv[m], csv'[m])
             \/ Deleted(report[m], report'[m]))
            => (/\ current_month_folder = Some(m)
                /\ <<wpc, widx, fidx, months_data, processing>>'
                     = <<wpc, widx, fidx, months_data, processing>>)
       /\ (xlsx[m] # None /\ xlsx'[m] # None)
            => KeepsRecords(xlsx[m][1], xlsx'[m][1])]_vars

\* a second batch has brought the ledger of one month to two rows or more,
\* and the files of the other month, written too, are gone after a reset
C19_Witness ==
  /\ submitted > Len(file_paths)
  /\ current_month_folder = None
  /\ \E m \in Months :
       /\ xlsx[m] # None
       /\ Len(xlsx[m][1]) >= 2
       /\ \A n \in Months \ {m} : xlsx[n] = None /\ report[n] = None

(***************************************************************************)
(* The patient and due date: C15.                                          *)
(***************************************************************************)
\* the position of the first and of the second "/" of the text, 0 if none
Slash1(date) == FirstOf({p \in 1..Len(date) : date[p] = "/"})

Slash2(date) == FirstOf({p \in (Slash1(date) + 1)..Len(date) : date[p] = "/"})

AllDigits(t) == \A k \in 1..Len(t) : t[k] \in DigitSet

\* the text starts with one or two digits, "/", one or two digits, "/" and
\* four digits
StartsWithDate(date) ==
  /\ Slash1(date) \in 2..3
  /\ Slash2(date) - Slash1(date) \in 2..3
  /\ Len(date) >= Slash2(date) + 4
  /\ AllDigits(SubSeq(date, 1, Slash1(date) - 1))
  /\ AllDigits(SubSeq(date, Slash1(date) + 1, Slash2(date) - 1))
  /\ AllDigits(SubSeq(date, Slash2(date) + 1, Slash2(date) + 4))

\* month, day and year of a text that starts with a date, in that order
MonthOf(date) == IntOfDigits(SubSeq(date, 1, Slash1(date) - 1))

DayOf(date) == IntOfDigits(SubSeq(date, Slash1(date) + 1, Slash2(date) - 1))

YearOf(date) == IntOfDigits(SubSeq(date, Slash2(date) + 1, Slash2(date) + 4))

\* the day exists in the calendar: years from 1, months 1 to 12, 30 days in
\* April, June, September and November, 28 in February and 29 in leap years
RealDate(y, m, d) ==
  /\ y >= 1
  /\ m \in 1..12
  /\ d \in 1..31
  /\ m \in {4, 6, 9, 11} => d <= 30
  /\ m = 2 => d <= 29
  /\ (m = 2 /\ d = 29) => (y % 4 = 0 /\ (y % 100 # 0 \/ y % 400 = 0))

\* the pattern occurs in the patient line: "Patient:" in any letter case,
\* the comma before "Due", and a date form
PatternOccurs(prefix, mark, date) ==
  /\ UpperStr(prefix) = <<"P", "A", "T", "I", "E", "N", "T", ":">>
  /\ \E k \in 1..Len(mark) : mark[k] = ","
  /\ StartsWithDate(date)

\* what C15 says of the footer made of the four parts
PatientOutcome(out, prefix, mark, date) ==
  /\ ~PatternOccurs(prefix, mark, date) =>
       (~out.ok /\ out.err = "PatientOrDateNotFound")
  /\ (PatternOccurs(prefix, mark, date)
        /\ ~RealDate(YearOf(date), MonthOf(date), DayOf(date))) =>
       (~out.ok /\ out.err = "InvalidDate")
  /\ out.ok =>
       /\ RealDate(out.date_due[1].year, out.date_due[1].month, out.date_due[1].day)
       /\ out.date_due[1] = [year |-> YearOf(date), month |-> MonthOf(date),
                             day |-> DayOf(date)]

\* C15: _parse_patient_and_date fails with the not-found error when the text
\* has no "Patient: <name>, Due <m/d/yyyy>" (in any letter case), fails with
\* the date error when the m/d/yyyy matched is no day of the calendar in the
\* order month/day/year (2/30/2024, 13/1/2024), and a date it returns is a
\* day of the calendar, the one written in the text.
C15_PatientDateErrors ==
  patient_out # None =>
    \A prefix \in PatientPrefixes, name \in PatientNames, mark \in DueMarks,
       date \in DueDates :
      parse_text = PatientText(prefix, name, mark, date) =>
        PatientOutcome(patient_out[1], prefix, mark, date)

\* "Patient: Jane Doe, Due 2/30/2024" has been refused for its date
C15_Witness ==
  /\ patient_out # None
  /\ parse_text = PatientText(<<"P", "a", "t", "i", "e", "n", "t", ":">>, <<"J", "a", "n", "e", " ", "D", "o", "e">>,
                              <<",", " ", "D", "u", "e", " ">>, <<"2", "/", "3", "0", "/", "2", "0", "2", "4">>)
  /\ ~patient_out[1].ok
  /\ patient_out[1].err = "InvalidDate"

(***************************************************************************)
(* The dentist header: C16.                                                *)
(***************************************************************************)
\* the header is a spelling of "INVOICE FOR:": these characters, with
\* whitespace between any two of them or not
SpellsInvoiceFor(header) ==
  RemoveSpace(header) = <<"I", "N", "V", "O", "I", "C", "E", "F", "O", "R", ":">>

\* the line after the name starts with a spelling of "DESCRIPTION"
SpellsDescription(thead) ==
  StartsAt(RemoveSpace(thead), 1, <<"D", "E", "S", "C", "R", "I", "P", "T", "I", "O", "N">>)

\* what C16 says of the text made of the five parts, when "DESCRIPTION"
\* follows the name: the name is found, with the characters of the text
\* between the colon and "DESCRIPTION", if and only if the header is a
\* spelling of "INVOICE FOR:"
DentistOutcome(out, header, name) ==
  IF SpellsInvoiceFor(header)
    THEN out.ok /\ RemoveSpace(out.name) = RemoveSpace(name)
    ELSE ~out.ok

\* C16: _parse_dentist_name finds the header in every spelling of
\* "INVOICE FOR:" with or without whitespace between adjacent characters
\* ("INVOICEFOR:" included) and returns the text up to a likewise spelled
\* "DESCRIPTION"; it fails when the text has no such header.
C16_HeaderTolerance ==
  dentist_out # None =>
    \A header \in InvoiceForHeaders, gap \in HeaderGaps, name \in DentistNames,
       name_gap \in NameGaps, thead \in DescriptionLines :
      (parse_text = DentistText(header, gap, name, name_gap, thead)
         /\ SpellsDescription(thead))
        => DentistOutcome(dentist_out[1], header, name)

(***************************************************************************)
(* The table header and the extent of the table: C17, C20.                 *)
(***************************************************************************)
\* the place of the first spelling of the table header among the lines, 0
\* if there is none
FirstSpelled(lines) ==
  IF \E i \in 1..Len(lines) : lines[i] \in TableHeaderSpellings
    THEN MinOf({i \in 1..Len(lines) : lines[i] \in TableHeaderSpellings})
    ELSE 0

\* C17: _parse_table takes as header the first line that has DESCRIPTION,
\* QUANTITY, UNITPRICE and COST once whitespace is removed and letters are
\* upper-cased, whatever the spacing between the characters, and reads the
\* rows from the line after it; it returns the empty list when no line is
\* such a header.
C17_TableHeaderTolerance ==
  table_out # None =>
    /\ table_out[1] =
         TableFrom(SplitLines(parse_text), FirstSpelled(SplitLines(parse_text)))
    /\ FirstSpelled(SplitLines(parse_text)) = 0 => table_out[1] = <<>>

\* below a row and the header with a space between all characters, the rows
\* Totalcare and Crown have been read, and the row above the header has not
C17_Witness ==
  /\ table_out # None
  /\ parse_text =
       TableText(<<RowCrown>>, SpacedTableHeader, <<RowTotalcare, RowCrown>>, <<>>, <<>>)
  /\ Len(table_out[1]) = 2
  /\ table_out[1][1].description = <<"T", "o", "t", "a", "l", "c", "a", "r", "e">>

\* the line has "total" somewhere, in any letter case
ContainsTotal(line) == Contains(UpperStr(line), <<"T", "O", "T", "A", "L">>)

\* the lines after header h that are valid rows and have no line of stops
\* between the header and themselves, themselves included
Extent(lines, h, stops) ==
  {i \in (h + 1)..Len(lines) :
     ValidRow(lines, i) /\ \A k \in (h + 1)..i : k \notin stops}

\* items holds, in order, the line item of each line of rows and nothing else
ItemsAre(items, lines, rows) ==
  /\ Len(items) = Cardinality(rows)
  /\ \A i \in rows :
       Some(items[Cardinality({k \in rows : k <= i})]) = _parse_table_row(Strip(lines[i]))

\* the lines that are blank or contain "total"
TotalLines(lines) ==
  {i \in 1..Len(lines) : Strip(lines[i]) = <<>> \/ ContainsTotal(lines[i])}

\* the lines that are blank or have the word total, subtotal or sub-total
WordTotalLines(lines) == {i \in 1..Len(lines) : EndsTable(lines, i)}

\* C20 as stated: _parse_table yields, in order, one line item for each line
\* with three or more numeric tokens between the header and the first line
\* after it that is blank or contains "subtotal", "total" or "sub-total" in
\* any letter case; lines with fewer numeric tokens are skipped, and no line
\* at or after the terminating line yields an item.
C20_TableExtent ==
  (table_out # None /\ HeaderLines(SplitLines(parse_text)) # {}) =>
    ItemsAre(table_out[1], SplitLines(parse_text),
             Extent(SplitLines(parse_text), MinOf(HeaderLines(SplitLines(parse_text))),
                    TotalLines(SplitLines(parse_text))))

\* C20, amended: the terminating line is the first line after the header
\* that is blank or has "subtotal", "total" or "sub-total" as a whole word,
\* in any letter case; a line that has "total" only inside a longer word is
\* a row like any other.
C20_TableExtentWholeWord ==
  (table_out # None /\ HeaderLines(SplitLines(parse_text)) # {}) =>
    ItemsAre(table_out[1], SplitLines(parse_text),
             Extent(SplitLines(parse_text), MinOf(HeaderLines(SplitLines(parse_text))),
                    WordTotalLines(SplitLines(parse_text))))

\* of the lines Shade A2, Crown, a total line with three numeric tokens and
\* Alloy below the header, only Crown has become an item
C20_Witness ==
  /\ table_out # None
  /\ parse_text =
       TableText(<<PartialHeader>>, TableHeader, <<RowShade, RowCrown>>,
                 <<TotalRowLine>>, <<RowAlloy>>)
  /\ Len(table_out[1]) = 1
  /\ table_out[1][1].description = <<"C", "r", "o", "w", "n">>

(***************************************************************************)
(* The dates of the statement: C18.                                        *)
(***************************************************************************)
\* the leap years among the years of the labels
LeapReportYears == {2000, 2024, 2400}

\* the number of days of month m of year y of the labels
MonthLength(y, m) ==
  CASE m = 2 -> IF y \in LeapReportYears THEN 29 ELSE 28
    [] m \in {4, 6, 9, 11} -> 30
    [] OTHER -> 31

C18_WitnessFebruary ==
  /\ dates_out # None
  /\ label_in = <<"1", "9", "0", "0", "-", "0", "2">>
  /\ dates_out[1].last_day.day = 28

(***************************************************************************)
(* The columns of a table row: C21, C22.                                   *)
(***************************************************************************)
\* the amount of a price or cost of the table lines, in cents: its digits
\* without "$", blanks, commas and parentheses
AmountOf(tok) ==
  Decimal(SelectSeq(AmountDigits(tok), LAMBDA ch : ch \notin {"(", ")"}))

\* C21: of a row with three or more numeric tokens _parse_table_row takes
\* quantity, unit price and cost from the last three, in reading order, so
\* that no digit of the description becomes one of them.
C21_LastThreeTokens ==
  row_out # None =>
    \A lead \in RowLeads, description \in RowDescriptions, quantity \in RowQuantities,
       unit_price \in RowUnitPrices, cost \in RowCosts :
      row_line = RowLine(lead, description, quantity, unit_price, cost) =>
        /\ row_out[1] # None
        /\ row_out[1][1].quantity = IntOfDigits(quantity)
        /\ row_out[1][1].unit_price = AmountOf(unit_price)
        /\ row_out[1][1].cost \in {AmountOf(cost), 0 - AmountOf(cost)}

\* "Implant 3.5 x 10 #14 2 $1,234.50 $ 110.00" has been read as 2 units at
\* 1,234.50 costing 110.00
C21_Witness ==
  /\ row_out # None
  /\ row_line = <<"I", "m", "p", "l", "a", "n", "t", " ", "3", ".", "5", " ", "x", " ", "1", "0", " ", "#", "1", "4", " ", "2", " ", "$", "1", ",", "2", "3", "4", ".", "5", "0", " ", "$", " ", "1", "1", "0", ".", "0", "0">>
  /\ row_out[1] # None
  /\ row_out[1][1].quantity = 2
  /\ row_out[1][1].unit_price = 123450
  /\ row_out[1][1].cost = 11000

\* C22: the description that _parse_table_row returns is all the text before
\* the third-from-last numeric token, without leading pipes, tabs and blanks,
\* also when the description has an earlier token equal to the quantity, as
\* in "Bruxzir #3 Shade C1 1 $ 110.00 $ 110.00".
C22_DescriptionExtent ==
  row_out # None =>
    \A lead \in RowLeads, description \in RowDescriptions, quantity \in RowQuantities,
       unit_price \in RowUnitPrices, cost \in RowCosts :
      row_line = RowLine(lead, description, quantity, unit_price, cost) =>
        /\ row_out[1] # None
        /\ row_out[1][1].description = description

(***************************************************************************)
(* The reconstruction of the dentist name: C23.                            *)
(***************************************************************************)
\* the four steps of C23 on a span: all whitespace removed, a space after
\* every period, a space between a lower-case and an upper-case letter,
\* whitespace runs collapsed and the ends trimmed
ReconstructedName(span) ==
  Strip(CollapseSpace(WordBreaks(SpaceAfterPeriods(RemoveSpace(span)))))

\* C23: the name that _parse_dentist_name returns is the captured span with
\* (a) all whitespace removed, blanks, tabs and any other, (b) a space put
\* after every period, (c) a space put at every step from a lower-case to an
\* upper-case letter, (d) whitespace runs collapsed to one space and trimmed.
C23_NameReconstruction ==
  dentist_out # None =>
    \A name \in SpanNames :
      parse_text = SpanText(name) =>
        /\ dentist_out[1].ok
        /\ dentist_out[1].name = ReconstructedName(name)

(***************************************************************************)
(* The keys of a ledger: C24.                                              *)
(***************************************************************************)
\* C24: after any sequence of imports that starts with no ledger, no two
\* rows of the ledger of a month have the same key (date_due, patient_name,
\* total_cost), also when a batch holds the same invoice twice and when a
\* total is zero.
C24_KeyUniqueness ==
  \A m \in Months :
    xlsx[m] # None =>
      \A i \in 1..Len(xlsx[m][1]) : \A j \in (i + 1)..Len(xlsx[m][1]) :
        <<xlsx[m][1][i].date, xlsx[m][1][i].name, xlsx[m][1][i].total>>
          # <<xlsx[m][1][j].date, xlsx[m][1][j].name, xlsx[m][1][j].total>>

(***************************************************************************)
(* The dentist name of the report: C25.                                    *)
(***************************************************************************)
\* every row of the batch for the month has the same name, which is not
\* empty: the name that was confirmed
ConfirmedRows(rows) ==
  /\ rows[1].dentist_name # <<>>
  /\ \A j \in 1..Len(rows) : rows[j].dentist_name = rows[1].dentist_name

\* C25: when the worker writes a month for which the batch has records with
\* the confirmed dentist name N, the report of the month names N, whatever
\* rows the ledger of the month held before and whatever their dates.
C25_ReportDentistName ==
  [][(/\ wpc = "write"
      /\ widx <= Len(months_data)
      /\ widx' = widx + 1
      /\ ConfirmedRows(months_data[widx].rows))
       => report'[months_data[widx].month][1].dentist_name
            = months_data[widx].rows[1].dentist_name]_vars

(***************************************************************************)
(* The cleanup of converted files: C26.                                    *)
(***************************************************************************)
\* C26: the worker deletes no PDF that was on the disk before the run, the
\* PDF next to a .pages file of the same name included; it deletes only the
\* PDFs that the conversion of a .pages file made in the same run.
C26_CleanupOnlyIntermediates ==
  \A f \in DOMAIN SiblingDisk : f.ext = "pdf" => f \in DOMAIN disk

(***************************************************************************)
(* The end of a batch: C27.                                                *)
(***************************************************************************)
\* C27: once a batch is started, the worker finishes and processing is set
\* back to False, whichever way the user dismisses the dialog for the
\* dentist name: Confirm, Use As-Is, or closing the window.
C27_BatchTerminates == processing ~> ~processing

(***************************************************************************)
(* The reset and the worker: C28.                                          *)
(***************************************************************************)
\* C28: no step deletes the ledger, the CSV file or the report of a month
\* while a batch is in progress (processing is True), so that a reset never
\* falls between the worker's load of a ledger and its writes.
C28_NoResetDuringMerge ==
  [][\A m \in Months :
       (Deleted(xlsx[m], xlsx'[m]) \/ Deleted(csv[m], csv'[m])
          \/ Deleted(report[m], report'[m]))
         => ~processing]_vars

(***************************************************************************)
(* A batch in which every document fails: C29.                             *)
(***************************************************************************)
\* every document of the batch has been processed
AllProcessed == Len(outcomes) = Len(file_paths)

\* every document of the batch has been processed and none gave a record
AllFailed == AllProcessed /\ \A k \in 1..Len(outcomes) : outcomes[k].records = 0

\* C29: no ledger, CSV file or report is written before every document of
\* the batch has been processed; and when every document has failed, no step
\* shows the dialog for the dentist name, none writes or changes a ledger, a
\* CSV file or a report, and the worker finishes with success and with one
\* entry in the exceptions for each document, in their order.
C29_AllFailedBatch ==
  [][/\ <<xlsx, csv, report>>' # <<xlsx, csv, report>> => AllProcessed
     /\ (AllFailed /\ processing /\ wpc # "none") =>
          /\ <<xlsx, csv, report>>' = <<xlsx, csv, report>>
          /\ dialog' = "none"
          /\ wpc' # "prompt"
          /\ wpc' = "none" =>
               /\ finish_ui' = Some(TRUE)
               /\ Len(exceptions') = Len(file_paths)
               /\ \A k \in 1..Len(file_paths) : exceptions'[k].file = file_paths[k]]_vars

\* after an import into a month, a batch of two documents that both failed
\* has finished with two exceptions
C29_Witness ==
  /\ Len(file_paths) >= 2
  /\ submitted > Len(file_paths)
  /\ AllFailed
  /\ wpc = "none"
  /\ finish_ui = Some(TRUE)
  /\ Len(exceptions) = Len(file_paths)
  /\ \E m \in Months : xlsx[m] # None /\ report[m] # None

(***************************************************************************)
(* The ledger read back: C30.                                              *)
(***************************************************************************)
\* the records that load_existing_rows returns for the ledger just written
Reloaded == load_existing_rows(ledger_out).rows

\* write_xlsx has written rows_in into a month that had no ledger
WrittenIntoEmptyMonth == ledger_in = None /\ ledger_out # None

\* the reloaded record k carries the date, the name and the total of the
\* ledger row k
SameKeyFields(k) ==
  /\ Reloaded[k].date_due = ledger_out[1][k].date
  /\ Reloaded[k].patient_name = ledger_out[1][k].name
  /\ Reloaded[k].total_cost = DecimalOfFloat(ledger_out[1][k].total)

\* the next write_xlsx finds the ledger row k under the key of the reloaded
\* record k
MatchesOwnRow(k) ==
  /\ CellsKeyed(ledger_out[1][k])
  /\ CellsKey(ledger_out[1][k]) = RowKey(Reloaded[k])
  /\ ExistingIdx(ledger_out[1], RowKey(Reloaded[k])) # 0

\* the ledger rows carry the key fields of the records written, one row each
OneRowPerRecord ==
  /\ Len(ledger_out[1]) = Len(rows_in)
  /\ \A key \in {RowKey(rows_in[i]) : i \in 1..Len(rows_in)} :
       Cardinality({i \in 1..Len(rows_in) : RowKey(rows_in[i]) = key})
         = Cardinality({k \in 1..Len(ledger_out[1]) :
                          CellsKey(ledger_out[1][k]) = key})

\* the values read back: one record per ledger row, with its date, name and
\* total
C30_ValuesReadBack ==
  WrittenIntoEmptyMonth =>
    /\ load_existing_rows(ledger_out).ok
    /\ OneRowPerRecord
    /\ Len(Reloaded) = Len(ledger_out[1])
    /\ \A k \in 1..Len(Reloaded) : SameKeyFields(k)

\* C30: after write_xlsx of any records into an empty month,
\* load_existing_rows returns exactly one record per ledger row, with the same
\* date_due, patient_name and total_cost (as decimal values), and every
\* reloaded record matches its own row's key on the next merge.
C30_LedgerRoundTrip ==
  WrittenIntoEmptyMonth =>
    /\ load_existing_rows(ledger_out).ok
    /\ Len(Reloaded) = Len(ledger_out[1])
    /\ \A k \in 1..Len(Reloaded) : SameKeyFields(k) /\ MatchesOwnRow(k)

\* the same for the ledgers whose rows all have a non-zero total
C30_NonZeroRoundTrip ==
  (WrittenIntoEmptyMonth /\ \A i \in 1..Len(rows_in) : rows_in[i].total_cost # 0)
    => C30_LedgerRoundTrip

====
